---- MODULE Spec2Model ----
(***************************************************************************)
(* Model of the multi-agent orchestration engine of services/geminiService *)
(* (runMultiAgentSystem, executeAgent, planExecution, compactHistory,      *)
(* evaluateResponse, TraceService) and services/memoryService              *)
(* (MemoryBankService).                                                    *)
(*                                                                         *)
(* Strings are sequences of tokens; string concatenation is \o.  Every     *)
(* await of the source is a state in which a task or the controller waits; *)
(* the code between two awaits is one atomic step, as in the single        *)
(* threaded JavaScript event loop.  The answers of the reasoning service   *)
(* are inputs drawn from small sets.  Clock readings (metric values,       *)
(* timestamps) are not modelled.                                           *)
(***************************************************************************)
EXTENDS Integers, Sequences, FiniteSets, TLC

\* ------------------------------------------------------------------ bounds
\* longest plan the planning answer may carry
MaxSteps == 2
\* function-call answers the reasoning service gives within one run
MaxToolCalls == 2
\* runs of one pause/resume chain
MaxRuns == 2
\* function-call answers within the single executor call of SpecExec
MaxExecCalls == 6
\* the longest prior conversation of the runs that stop at the planning call
MaxHistory == 8
\* the longest log of the trace recorder taken on its own
MaxMetrics == 6
\* function-call answers within the PARALLEL run of SpecParallel
MaxParCalls == 3
\* function-call answers within a run of SpecLive: more than the executors of a
\* run of MaxSteps + 1 executor calls can take, so that this bound ends no run
MaxLiveCalls == 18

\* --------------------------------------------------------- program constants
\* while (... && turns < 5)
MaxTurns == 5
\* if (history.length > 6)
CompactionThreshold == 6
\* getRecentMetrics(count: number = 5)
DefaultCount == 5

\* ------------------------------------------------------------------ types
HEALTH == "HEALTH"
EDUCATION == "EDUCATION"
ENVIRONMENT == "ENVIRONMENT"
ORCHESTRATOR == "ORCHESTRATOR"
AgentDomain == {HEALTH, EDUCATION, ENVIRONMENT, ORCHESTRATOR}

PARALLEL == "PARALLEL"
SEQUENTIAL == "SEQUENTIAL"
LOOP == "LOOP"
DIRECT == "DIRECT"
PAUSED == "PAUSED"
PLANNING == "PLANNING"
ExecutionMode == {PARALLEL, SEQUENTIAL, LOOP, DIRECT, PAUSED, PLANNING}

\* the modes ORCHESTRATOR_SCHEMA lets the planning answer select
PlannerModes == {PARALLEL, SEQUENTIAL, LOOP, DIRECT}

Min(a, b) == IF a < b THEN a ELSE b

\* the user's request text
Prompt == <<"p">>

\* ------------------------------------------------------------ memory bank
DEFAULT_CONTEXT ==
    [name |-> "User", location |-> "Unknown", healthConditions |-> <<>>,
     learningGoals |-> <<>>, ecoPreferences |-> <<>>, notes |-> <<>>]

\* the keys of the context that hold a list
ListKeys == {"healthConditions", "learningGoals", "ecoPreferences", "notes"}

\* the four arrays of DEFAULT_CONTEXT as the module creates them
DefaultLists == [k \in ListKeys |-> DEFAULT_CONTEXT[k]]

\* { ...DEFAULT_CONTEXT } copies one level: a list of the copy is the array of
\* DEFAULT_CONTEXT itself, and a push into one shows in the other. What the
\* arrays of DEFAULT_CONTEXT hold once the context holds ctx, mine being the
\* lists the context holds as arrays of its own
SharedLists(defs, mine, ctx) ==
    [k \in ListKeys |-> IF k \in mine THEN defs[k] ELSE ctx[k]]

\* this.context = { ...DEFAULT_CONTEXT }
clear(defs) ==
    [name |-> DEFAULT_CONTEXT.name, location |-> DEFAULT_CONTEXT.location,
     healthConditions |-> defs.healthConditions, learningGoals |-> defs.learningGoals,
     ecoPreferences |-> defs.ecoPreferences, notes |-> defs.notes]

Includes(list, x) == \E k \in 1..Len(list) : list[k] = x

\* a mutant of addArrayItem: the duplicate test is dropped
addArrayItemNoDedupe(ctx, key, item) ==
    [ctx EXCEPT ![key] = Append(@, item)]

\* a mutant of addArrayItem: the list is written back from a stale copy, so
\* that the last writer wins
addArrayItemLastWriterWins(ctx, key, item) ==
    [ctx EXCEPT ![key] = <<item>>]

addArrayItem(ctx, key, item) ==
    IF Includes(ctx[key], item) THEN ctx
    ELSE [ctx EXCEPT ![key] = Append(@, item)]

\* a mutant of addNote: the duplicate test is dropped
addNoteNoDedupe(ctx, note) ==
    [ctx EXCEPT !.notes = Append(@, note)]

addNote(ctx, note) ==
    IF Includes(ctx.notes, note) THEN ctx
    ELSE [ctx EXCEPT !.notes = Append(@, note)]

\* updateContext({ name: item })
updateContextName(ctx, item) == [ctx EXCEPT !.name = item]

RECURSIVE Join(_, _)
Join(list, sep) ==
    IF list = <<>> THEN <<>>
    ELSE IF Len(list) = 1 THEN <<list[1]>>
    ELSE <<list[1], sep>> \o Join(Tail(list), sep)

\* list.join(', ') || 'None recorded'
JoinOr(list, sep, dflt) == IF Join(list, sep) = <<>> THEN <<dflt>> ELSE Join(list, sep)

getFormattedContext(ctx) ==
    <<"Name: ", ctx.name, "Location: ", ctx.location, "Health Profile: ">>
    \o JoinOr(ctx.healthConditions, ", ", "None recorded")
    \o <<"Learning Goals: ">> \o JoinOr(ctx.learningGoals, ", ", "None recorded")
    \o <<"Eco Preferences: ">> \o JoinOr(ctx.ecoPreferences, ", ", "None recorded")
    \o <<"Key Notes: ">> \o Join(ctx.notes, "; ")

\* the updateMemory branch of executeAgent: dispatch on args.category
ApplyUpdateMemory(ctx, category, item) ==
    IF category = "health" THEN addArrayItem(ctx, "healthConditions", item)
    ELSE IF category = "education" THEN addArrayItem(ctx, "learningGoals", item)
    ELSE IF category = "environment" THEN addArrayItem(ctx, "ecoPreferences", item)
    ELSE IF category = "profile" THEN updateContextName(ctx, item)
    ELSE addNote(ctx, item)

\* ------------------------------------------------- answers of the services
\* a function call of a response: name and up to two arguments
Call(name, a1, a2) == [name |-> name, a1 |-> a1, a2 |-> a2]

NoCall == Call("", "", "")
PauseCall == Call("pauseWorkflow", "r1", "")
FetchCall == Call("fetchMedicalRecords", "pat1", "")
OtherCall == Call("googleSearch", "", "")
UpdateCalls(cats, items) == {Call("updateMemory", c, x) : c \in cats, x \in items}

\* a response of chat.sendMessage: its text, its function calls, and whether
\* it carries grounding metadata and an executableCode part
Response(text, fcs, g, c) == [text |-> text, fcs |-> fcs, grounding |-> g, code |-> c]

Texts == {<<>>, <<"a">>}

\* responses drawn in a whole run
RunCalls == {PauseCall, FetchCall} \cup UpdateCalls({"health"}, {"x"})
RunResponses ==
    {Response(t, <<>>, FALSE, FALSE) : t \in Texts}
    \cup {Response(<<"a">>, <<c>>, FALSE, FALSE) : c \in RunCalls}

\* responses drawn in the single executor call of SpecExec
ExecCalls ==
    {PauseCall, FetchCall, OtherCall}
    \cup UpdateCalls({"health", "education", "environment", "profile", "note", "misc"},
                     {"x"})
    \cup UpdateCalls({"health", "note"}, {"y"})
ExecResponses ==
    {Response(<<>>, <<>>, FALSE, FALSE), Response(<<"a">>, <<>>, FALSE, FALSE),
     Response(<<"a">>, <<>>, TRUE, FALSE), Response(<<"a">>, <<>>, FALSE, TRUE)}
    \cup {Response(<<"a">>, <<c>>, FALSE, FALSE) : c \in ExecCalls}
    \cup {Response(<<>>, <<OtherCall>>, FALSE, FALSE),
          Response(<<"a">>, <<FetchCall, PauseCall>>, TRUE, TRUE)}

\* ------------------------------------------------------------------ plans
Step(agent, instruction) == [agent |-> agent, instruction |-> instruction]

\* agents and instructions of the steps a planning answer carries
PlannerAgents == {HEALTH, EDUCATION}
PlannerSteps == {Step(a, <<"i1">>) : a \in PlannerAgents}

RECURSIVE SeqsUpTo(_, _)
SeqsUpTo(S, n) ==
    IF n = 0 THEN {<<>>}
    ELSE LET shorter == SeqsUpTo(S, n - 1)
         IN  shorter \cup {Append(s, x) : s \in {q \in shorter : Len(q) = n - 1}, x \in S}

\* the steps of the LOOP and DIRECT plans: only steps[0] is read
FirstStepOnly ==
    SeqsUpTo(PlannerSteps, 1) \cup {<<Step(HEALTH, <<"i1">>), Step(EDUCATION, <<"i1">>)>>}

\* JSON.parse(response.text) as AgentPlan: no validation beyond the schema
PlannerPlans ==
    {[mode |-> m, steps |-> s, reasoning |-> <<"why">>] :
        m \in {PARALLEL, SEQUENTIAL}, s \in SeqsUpTo(PlannerSteps, MaxSteps)}
    \cup {[mode |-> m, steps |-> s, reasoning |-> <<"why">>] :
        m \in {LOOP, DIRECT}, s \in FirstStepOnly}

FallbackPlan ==
    [mode |-> DIRECT, steps |-> <<Step(ORCHESTRATOR, Prompt)>>, reasoning |-> <<"Fallback.">>]

NoPlan == [mode |-> "", steps |-> <<>>, reasoning |-> <<>>]


\* PausedState of types.ts
PausedState(p, k, ctx, outs) ==
    [plan |-> p, stepIndex |-> k, accumulatedContext |-> ctx, agentOutputs |-> outs]

\* resumeState is undefined
NoState == PausedState(NoPlan, -1, <<>>, <<>>)

\* ------------------------------------------------------------ AgentOutputs
\* Record<string, string>: the keys in insertion order, each with its text
HasKey(outs, a) == \E k \in 1..Len(outs) : outs[k].agent = a

Get(outs, a) == outs[CHOOSE k \in 1..Len(outs) : outs[k].agent = a].text

\* a mutant of SetOutput: a key that is present keeps its text
SetOutputFirstWins(outs, a, text) ==
    IF HasKey(outs, a) THEN outs ELSE Append(outs, [agent |-> a, text |-> text])

\* agentOutputs[a] = text
SetOutput(outs, a, text) ==
    IF HasKey(outs, a)
    THEN [k \in 1..Len(outs) |->
             IF outs[k].agent = a THEN [agent |-> a, text |-> text] ELSE outs[k]]
    ELSE Append(outs, [agent |-> a, text |-> text])

\* ------------------------------------------------------------------ history
Turn(role, text) == [role |-> role, text |-> text]

HistoryOf(n) == [k \in 1..n |-> Turn(IF k % 2 = 1 THEN "user" ELSE "model", <<"h">>)]

\* lengths of the prior conversation: none, and one above the threshold
Histories == {HistoryOf(n) : n \in {0, CompactionThreshold + 1}}

\* h.role.toUpperCase()
ToUpperCase(role) == IF role = "user" THEN "USER" ELSE IF role = "model" THEN "MODEL" ELSE role

RECURSIVE HistoryText(_)
\* history.map(h => `${ROLE}: ${text}`).join('\n')
HistoryText(h) ==
    IF h = <<>> THEN <<>>
    ELSE <<ToUpperCase(h[1].role), ": ">> \o h[1].text
         \o (IF Len(h) = 1 THEN <<>> ELSE <<"\n">> \o HistoryText(Tail(h)))

\* answers of the summarization call
SummaryTexts == {<<"s">>}

\* every length of the prior conversation up to MaxHistory
HistoriesUpTo == {HistoryOf(n) : n \in 0..MaxHistory}

\* response.text || "" of the summarization call: a summary, or none
HistorySummaryTexts == {<<>>, <<"s">>}

\* ------------------------------------------------------------ observations
\* one entry of the run's ordered record: a line handed to onLog (k = "log"),
\* a call made to a collaborator (k = "call"), a return of executeAgent
\* (k = "return"), or an effect on the memory bank (k = "effect")
Ev(k, who, step, what, arg, ctx) ==
    [k |-> k, who |-> who, step |-> step, what |-> what, arg |-> arg, ctx |-> ctx]

LogLine(who, step, what, arg) == Ev("log", who, step, what, arg, <<>>)

\* the value of execLog in the runs that keep no such record
NotKept == <<Ev("not kept", "", -1, "", <<>>, <<>>)>>

\* ------------------------------------------------------- executeAgent tasks
\* the controller calls executeAgent(agent, instruction, context, ...)
Called(step, agent, instruction, context) ==
    Ev("call", agent, step, "executeAgent", instruction, context)

\* a mutant of StartEvents: the first message is sent before the broadcast
StartEventsSendFirst(step, agent, instruction, context) ==
    << Ev("call", agent, step, "sendMessage", instruction, <<>>),
       LogLine(agent, step, "BROADCAST", <<>>),
       LogLine("System", step, "initialized", <<agent>>) >>

\* executeAgent up to its first await: the two broadcast lines, then
\* chat.sendMessage({ message: instruction })
StartEvents(step, agent, instruction, context) ==
    << LogLine(agent, step, "BROADCAST", <<>>),
       LogLine("System", step, "initialized", <<agent>>),
       Ev("call", agent, step, "sendMessage", instruction, <<>>) >>

\* the state of one executeAgent call: where it waits (st), its arguments, its
\* locals toolUsage and turns, which message it awaits the answer to (pending),
\* the number of function responses it has sent, the function call its loop
\* handled last (call), whether every response so far carried a fetchMedicalRecords
\* or updateMemory call (allTools), the text of the response it received last
\* (heard), its result once returned, and the ordered
\* record of what it has done (events)
Task(st, step, agent, instruction, context) ==
    [st |-> st, step |-> step, agent |-> agent, instruction |-> instruction,
     context |-> context, toolUsage |-> <<>>, turns |-> 0, pending |-> "first",
     fnSent |-> 0, call |-> NoCall, allTools |-> TRUE, heard |-> <<>>, text |-> <<>>,
     isPaused |-> FALSE, pauseReason |-> <<>>,
     events |-> StartEvents(step, agent, instruction, context)]

StartTask(step, agent, instruction, context) ==
    Task("sent", step, agent, instruction, context)

\* a mutant of FinalText: an empty text is returned as it is
FinalTextRaw(text) == text

\* response.text || "Task Completed."
FinalText(text) == IF text = <<>> THEN <<"Task Completed.">> ELSE text

\* `Workflow Paused: ${args.reason}`
PausedText(reason) == <<"Workflow Paused: ", reason>>

\* a mutant of LoopGuard: the cap is one turn too late
LoopGuardOffByOne(fcs, turns) == fcs # <<>> /\ turns <= MaxTurns

\* while (response.functionCalls && response.functionCalls.length > 0 && turns < 5)
LoopGuard(fcs, turns) == fcs # <<>> /\ turns < MaxTurns

\* a mutant of IsPauseCall: the pause tool is not recognised
IsPauseCallNever(name) == FALSE

IsPauseCall(name) == name = "pauseWorkflow"

\* a mutant of BuiltinUsage: a search is recorded whatever the response carries
BuiltinUsageAlways(r) == <<"googleSearch">>

\* the built-in tool checks made on the first response only
BuiltinUsage(r) ==
    (IF r.grounding THEN <<"googleSearch">> ELSE <<>>)
    \o (IF r.code THEN <<"codeExecution">> ELSE <<>>)

BuiltinLogs(tk, r) ==
    (IF r.grounding THEN <<LogLine(tk.agent, tk.step, "TOOL", <<"googleSearch">>)>> ELSE <<>>)
    \o (IF r.code THEN <<LogLine(tk.agent, tk.step, "TOOL", <<"codeExecution">>)>> ELSE <<>>)

Metric(name) == [name |-> name, value |-> 0, unit |-> "ms"]

\* What executeAgent does from the arrival of response r to its next await or
\* its return: the new task state (its record extended), the memory bank
\* afterwards, and whether it returned (AgentExecutionTime is recorded then).
OnResponse(tk, r, mem) ==
    LET first  == tk.pending = "first"
        turns1 == IF first THEN tk.turns ELSE tk.turns + 1
        usage1 == IF first THEN tk.toolUsage \o BuiltinUsage(r) ELSE tk.toolUsage
        logs1  == IF first THEN BuiltinLogs(tk, r) ELSE <<>>
        call   == r.fcs[1]
        tools  == tk.allTools /\ r.fcs # <<>>
                  /\ r.fcs[1].name \in {"fetchMedicalRecords", "updateMemory"}
        usage2 == Append(usage1, call.name)
        logs2  == Append(logs1, LogLine(tk.agent, tk.step, "TOOL", <<call.name>>))
        ret(text, usage, paused, reason, logs, handled) ==
            [task |-> [tk EXCEPT !.st = "returned", !.turns = turns1, !.toolUsage = usage,
                                 !.call = handled, !.allTools = tools, !.heard = r.text,
                                 !.text = text, !.isPaused = paused,
                                 !.pauseReason = reason,
                                 !.events = @ \o logs \o
                                     <<Ev("return", tk.agent, tk.step,
                                          IF paused THEN "paused" ELSE "completed",
                                          text, <<>>)>>],
             mem |-> mem, returned |-> TRUE]
        send(newmem, pre) ==
            [task |-> [tk EXCEPT !.st = "sent", !.turns = turns1, !.toolUsage = usage2,
                                 !.pending = "fn", !.fnSent = @ + 1, !.call = call,
                                 !.allTools = tools, !.heard = r.text,
                                 !.events = @ \o logs2 \o pre \o
                                     <<Ev("call", tk.agent, tk.step, "sendFunctionResponse",
                                          <<call.name>>, <<>>)>>],
             mem |-> newmem, returned |-> FALSE]
    IN  IF ~LoopGuard(r.fcs, turns1)
        THEN ret(FinalText(r.text), usage1, FALSE, <<>>, logs1, tk.call)
        ELSE IF IsPauseCall(call.name)
        THEN ret(PausedText(call.a1), usage2, TRUE, <<call.a1>>, logs2, call)
        ELSE IF call.name = "fetchMedicalRecords"
        THEN [task |-> [tk EXCEPT !.st = "fetching", !.turns = turns1,
                                  !.toolUsage = usage2,
                                  !.events = @ \o logs2 \o
                                      <<Ev("call", tk.agent, tk.step, "fetch",
                                           <<>>, <<>>)>>,
                                  !.call = call, !.allTools = tools, !.heard = r.text],
              mem |-> mem, returned |-> FALSE]
        ELSE IF call.name = "updateMemory"
        THEN send(ApplyUpdateMemory(mem, call.a1, call.a2),
                  <<Ev("effect", tk.agent, tk.step, "updateMemory", <<>>, <<>>)>>)
        ELSE ret(FinalText(r.text), usage2, FALSE, <<>>, logs2, call)

\* await OPENAPI_TOOL_SIMULATION(...) has returned: the function response is sent
OnFetched(tk) ==
    [tk EXCEPT !.st = "sent", !.pending = "fn", !.fnSent = @ + 1,
               !.events = Append(@, Ev("call", tk.agent, tk.step, "sendFunctionResponse",
                                       <<"fetchMedicalRecords">>, <<>>))]

\* chat.sendMessage rejects: executeAgent rejects with it
OnRejected(tk) ==
    [tk EXCEPT !.st = "threw",
               !.events = Append(@, Ev("throw", tk.agent, tk.step, "sendMessage",
                                       <<>>, <<>>))]

\* ------------------------------------------------------- results of a run
\* EvaluationResult of types.ts
Evaluation(score, feedback, latencyMs, tokenCost) ==
    [score |-> score, feedback |-> feedback, latencyMs |-> latencyMs,
     tokenCost |-> tokenCost]

NoEvaluation == Evaluation(-1, <<>>, -1, -1)

\* a mutant of DefaultEvaluation: the default scores nothing
DefaultEvaluationZero == Evaluation(0, <<"Evaluation service unavailable.">>, 0, 0)

\* return { score: 8, feedback: "Evaluation service unavailable.", ... }
DefaultEvaluation == Evaluation(8, <<"Evaluation service unavailable.">>, 0, 0)

\* the number of characters of a token
TokenLength(tok) ==
    IF tok = "final" THEN 5 ELSE IF tok = " answer" THEN 7 ELSE 1

RECURSIVE StringLength(_)
\* result.length
StringLength(text) ==
    IF text = <<>> THEN 0 ELSE TokenLength(Head(text)) + StringLength(Tail(text))

\* Math.floor(result.length / 4)
TokenCost(text) == StringLength(text) \div 4

\* parsed.response of the answers of the synthesis call
SynthTexts == {<<"final", " answer">>}

\* parsed.score of the answers of the scoring call
ScoreAnswers == {7, 11}

\* the value runMultiAgentSystem returns; kind is "none" while it has not
\* returned, "paused" for the early return of the sequential loop, "done" for
\* the final return
RunResult(kind, response, mode, agents, ps, ev, ms) ==
    [kind |-> kind, response |-> response, executionMode |-> mode,
     activeAgents |-> agents, pausedState |-> ps, evaluation |-> ev, metrics |-> ms]

NoResult == RunResult("none", <<>>, "", <<>>, NoState, NoEvaluation, <<>>)

\* this.metrics.slice(-count)
getRecentMetrics(ms, count) ==
    IF count = 0 THEN ms
    ELSE SubSeq(ms, Len(ms) - Min(count, Len(ms)) + 1, Len(ms))

\* ---------------------------------------------------------------- the state
VARIABLES
    defaults,           \* what the four arrays of DEFAULT_CONTEXT hold
    own,                \* the lists the memory bank's context holds as arrays of its own
    apiKey,             \* whether runMultiAgentSystem is given an API key
    history,            \* the prior turns it is given
    resumeState,        \* the PausedState it is given, or NoState
    given,              \* resumeState as it was when the run was entered
    pc,                 \* where the controller of the run stands
    plan,
    contextSummary,
    accumulatedContext,
    agentOutputs,
    startStepIndex,
    i,                  \* the index of the sequential loop
    toolUsageLog,
    currentDraft,       \* LOOP: the draft
    critic,             \* LOOP: the critique
    parsed,             \* parsed.response of the synthesis answer
    tasks,              \* the executeAgent calls of the current phase
    result,             \* what the run returned
    memory,             \* memoryBank.context
    metrics,            \* traceService.metrics
    trace,              \* the ordered record of what the controller did (see Ev)
    budget,             \* function-call answers the service may still give
    count,              \* the argument of the last getRecentMetrics call made on the
                        \* trace recorder from outside a run, -1 when its answer is
                        \* out of date
    recent,             \* the answer to that call
    execLog,            \* the ordered record of what all executors of the run did,
                        \* their lines handed to onLog included; NotKept in the
                        \* runs in which this record is not kept
    runs                \* runs started in this pause/resume chain

vars == <<apiKey, history, resumeState, given, pc, plan, contextSummary, accumulatedContext,
          agentOutputs, startStepIndex, i, toolUsageLog, currentDraft, critic, parsed,
          tasks, result, memory, defaults, own, metrics, trace, budget, runs, count, recent,
          execLog>>

inputs == <<apiKey, history, given, runs, count, recent>>
bank == <<memory, defaults, own>>
locals == <<plan, contextSummary, accumulatedContext, agentOutputs, startStepIndex, i,
            toolUsageLog, currentDraft, critic, parsed>>

\* the PausedStates a caller may hand in: any plan, a resumption point within
\* it, and the outputs stored so far
ResumeInputs ==
    {PausedState(p, k, <<"ctx0">>, outs) :
        p \in PlannerPlans, k \in 0..MaxSteps,
        outs \in {<<>>, <<[agent |-> HEALTH, text |-> <<"old">>]>>}}

WellFormed(ps) == ps.stepIndex >= 0 /\ ps.stepIndex <= Len(ps.plan.steps)

FreshLocals ==
    /\ plan = NoPlan
    /\ contextSummary = <<>>
    /\ accumulatedContext = <<>>
    /\ agentOutputs = <<>>
    /\ startStepIndex = 0
    /\ i = 0
    /\ toolUsageLog = <<>>
    /\ currentDraft = <<>>
    /\ critic = <<>>
    /\ parsed = <<>>

\* the state in which runMultiAgentSystem is entered when the trace recorder
\* of the process holds the metrics ms
EnteredAfter(ms) ==
    /\ pc = "start"
    /\ FreshLocals
    /\ tasks = <<>>
    /\ result = NoResult
    /\ memory = DEFAULT_CONTEXT
    /\ defaults = DefaultLists
    /\ own = {}
    /\ metrics = ms
    /\ trace = <<>>
    /\ runs = 1
    /\ count = -1
    /\ recent = <<>>

\* the state in which runMultiAgentSystem is entered first
Entered == EnteredAfter(<<>>)

Init ==
    /\ apiKey \in BOOLEAN
    /\ history \in Histories
    /\ resumeState \in {NoState} \cup {ps \in ResumeInputs : WellFormed(ps)}
    /\ given = resumeState
    /\ budget = MaxToolCalls
    /\ Entered
    /\ execLog = NotKept

\* a fresh run with an API key and no prior turns, in which the reasoning
\* service may answer with up to MaxExecCalls function calls
InitExec ==
    /\ apiKey = TRUE
    /\ history = <<>>
    /\ resumeState = NoState
    /\ given = NoState
    /\ budget = MaxExecCalls
    /\ Entered
    /\ execLog = NotKept

Resumed == resumeState # NoState

\* agentOutputs = resumeState.agentOutputs makes both names one object: a
\* write through agentOutputs shows in resumeState.agentOutputs
WriteOutputs(outs) ==
    /\ agentOutputs' = outs
    /\ resumeState' = IF Resumed THEN [resumeState EXCEPT !.agentOutputs = outs]
                      ELSE resumeState


Record(name) == metrics' = Append(metrics, Metric(name))

\* ------------------------------------------------------------ executeAgent
\* what the task has done in this step: the entries its record has gained
Gained(before, after) == SubSeq(after.events, Len(before.events) + 1, Len(after.events))

\* the executors' record is extended by what was done, in the order it was done
Observed(evs) == execLog' = IF execLog = NotKept THEN NotKept ELSE execLog \o evs

RECURSIVE StartedEvents(_)
\* what the newly started executors did up to their first await, one executor
\* after the other
StartedEvents(ts) ==
    IF ts = <<>> THEN <<>> ELSE Head(ts).events \o StartedEvents(Tail(ts))

\* the reasoning service answers the message task t has sent
Respond(t, r) ==
    /\ t \in 1..Len(tasks)
    /\ tasks[t].st = "sent"
    /\ r.fcs # <<>> => budget > 0
    /\ LET o == OnResponse(tasks[t], r, memory)
       IN  /\ tasks' = [tasks EXCEPT ![t] = o.task]
           /\ memory' = o.mem
           /\ defaults' = SharedLists(defaults, own, o.mem)
           /\ own' = own
           /\ metrics' = IF o.returned THEN Append(metrics, Metric("AgentExecutionTime"))
                         ELSE metrics
    /\ budget' = IF r.fcs # <<>> THEN budget - 1 ELSE budget
    /\ Observed(Gained(tasks[t], OnResponse(tasks[t], r, memory).task))
    /\ UNCHANGED <<inputs, resumeState, pc, locals, result, trace>>

\* chat.sendMessage rejects: executeAgent rejects with it
SendFails(t) ==
    /\ t \in 1..Len(tasks)
    /\ tasks[t].st = "sent"
    /\ tasks' = [tasks EXCEPT ![t] = OnRejected(tasks[t])]
    /\ Observed(Gained(tasks[t], OnRejected(tasks[t])))
    /\ UNCHANGED <<inputs, resumeState, pc, locals, result, bank, metrics, trace,
                   budget>>

\* the record fetch of task t returns after its delay
Fetched(t) ==
    /\ t \in 1..Len(tasks)
    /\ tasks[t].st = "fetching"
    /\ tasks' = [tasks EXCEPT ![t] = OnFetched(tasks[t])]
    /\ Observed(Gained(tasks[t], OnFetched(tasks[t])))
    /\ UNCHANGED <<inputs, resumeState, pc, locals, result, bank, metrics, trace,
                   budget>>

\* ---------------------------------------------------- runMultiAgentSystem
\* a mutant of KeyMissing: the credential is not looked at
KeyMissingIgnored == FALSE

\* !apiKey
KeyMissing == ~apiKey

\* if (!apiKey) throw new Error("API Key is required")
NoApiKey ==
    /\ pc = "start"
    /\ KeyMissing
    /\ pc' = "failed"
    /\ UNCHANGED <<inputs, execLog, resumeState, locals, tasks, result, bank, metrics, trace,
                   budget>>

\* a mutant of NeedsCompaction: the threshold itself is summarized
NeedsCompactionAtThreshold(h) == Len(h) >= CompactionThreshold

\* if (history.length > 6)
NeedsCompaction(h) == Len(h) > CompactionThreshold

\* history.length > 6: the summarization call is made
CompactionTriggered ==
    /\ pc = "start"
    /\ ~KeyMissing
    /\ ~Resumed /\ Len(history) > 0
    /\ NeedsCompaction(history)
    /\ trace' = trace \o
           << LogLine("System", -1, "Context Compaction triggered", <<>>),
              LogLine("System", -1, "Compressing conversation state", <<>>),
              Ev("call", "System", -1, "summarize", HistoryText(history), <<>>) >>
    /\ pc' = "compacting"
    /\ UNCHANGED <<inputs, execLog, resumeState, locals, tasks, result, bank, metrics, budget>>

\* a short history is used as it is; no history or a resume: nothing is done
CompactionSkipped ==
    /\ pc = "start"
    /\ ~KeyMissing
    /\ ~(~Resumed /\ Len(history) > 0 /\ NeedsCompaction(history))
    /\ IF ~Resumed /\ Len(history) > 0
       THEN /\ trace' = Append(trace, LogLine("System", -1, "Context Compaction skipped",
                                              <<>>))
            /\ contextSummary' = HistoryText(history)
       ELSE UNCHANGED <<trace, contextSummary>>
    /\ pc' = "phase1"
    /\ UNCHANGED <<inputs, execLog, resumeState, plan, accumulatedContext, agentOutputs,
                   startStepIndex, i, toolUsageLog, currentDraft, critic, parsed, tasks,
                   result, bank, metrics, budget>>

\* compactHistory returns response.text || ""
CompactionReturns(text) ==
    /\ pc = "compacting"
    /\ contextSummary' = text
    /\ trace' = trace \o
           << Ev("return", "System", -1, "summarize", text, <<>>),
              LogLine("System", -1, "Context compacted successfully", <<>>) >>
    /\ pc' = "phase1"
    /\ UNCHANGED <<inputs, execLog, resumeState, plan, accumulatedContext, agentOutputs,
                   startStepIndex, i, toolUsageLog, currentDraft, critic, parsed, tasks,
                   result, bank, metrics, budget>>

\* a mutant of CompactionFailureTarget: the failure is caught and the run goes
\* on to planning with an empty summary
CompactionFailureRecovered == "phase1"

\* contextSummary = await compactHistory(history, apiKey) is in no try block
CompactionFailureTarget == "failed"

\* the summarization call rejects: nothing catches it
CompactionFails ==
    /\ pc = "compacting"
    /\ trace' = Append(trace, Ev("throw", "System", -1, "summarize", <<>>, <<>>))
    /\ pc' = CompactionFailureTarget
    /\ UNCHANGED <<inputs, execLog, resumeState, locals, tasks, result, bank, metrics, budget>>

\* a mutant of ResumeIndex: the resumed loop starts over
ResumeIndexZero(ps) == 0

\* startStepIndex = resumeState.stepIndex
ResumeIndex(ps) == ps.stepIndex

\* Phase 1 on resume: the locals are restored from resumeState
Restore ==
    /\ pc = "phase1"
    /\ Resumed
    /\ plan' = resumeState.plan
    /\ accumulatedContext' = resumeState.accumulatedContext
    /\ agentOutputs' = resumeState.agentOutputs
    /\ startStepIndex' = ResumeIndex(resumeState)
    /\ trace' = trace \o
           << LogLine("System", -1, "Resuming suspended workflow", <<>>),
              LogLine("System", resumeState.stepIndex, "Resuming at step", <<>>) >>
    /\ pc' = "dispatch"
    /\ UNCHANGED <<inputs, execLog, resumeState, contextSummary, i, toolUsageLog, currentDraft,
                   critic, parsed, tasks, result, bank, metrics, budget>>

\* Phase 1 on a fresh run: planExecution is called
PlanningStarts ==
    /\ pc = "phase1"
    /\ ~Resumed
    /\ trace' = trace \o
           << LogLine("Orchestrator", -1, "Analyzing request", <<>>),
              Ev("call", "Orchestrator", -1, "plan", Prompt,
                 contextSummary \o getFormattedContext(memory)) >>
    /\ pc' = "planning"
    /\ UNCHANGED <<inputs, execLog, resumeState, locals, tasks, result, bank, metrics, budget>>

\* accumulatedContext = `User Query: ... Session ID: ... History Context: ...`
InitialContext ==
    <<"User Query: ">> \o Prompt \o <<"\nSession ID: ", "sess", "\nHistory Context: ">>
    \o contextSummary \o <<"\n">> \o getFormattedContext(memory)

\* a mutant of PlanAfterFailure: the failure leaves no plan
PlanAfterFailureNone == NoPlan

\* catch (e) { plan = { mode: DIRECT, steps: [{ ORCHESTRATOR, prompt }], ... } }
PlanAfterFailure == FallbackPlan

Planned(p, caught) ==
    /\ plan' = p
    /\ accumulatedContext' = InitialContext
    /\ trace' = trace \o caught \o <<LogLine("Orchestrator", -1, "Mode", <<p.mode>>)>>
    /\ pc' = "dispatch"
    /\ UNCHANGED <<inputs, execLog, resumeState, contextSummary, agentOutputs, startStepIndex, i,
                   toolUsageLog, currentDraft, critic, parsed, tasks, result, bank,
                   budget>>

\* planExecution returns the parsed answer
PlanReturns(p) ==
    /\ pc = "planning"
    /\ Record("PlanningLatency")
    /\ Planned(p, <<>>)

\* generateContent answers, JSON.parse(response.text) throws: caught
PlanUnparsable ==
    /\ pc = "planning"
    /\ Record("PlanningLatency")
    /\ Planned(PlanAfterFailure, <<Ev("throw", "Orchestrator", -1, "plan", <<"parse">>, <<>>)>>)

\* generateContent rejects: caught
PlanFails ==
    /\ pc = "planning"
    /\ UNCHANGED metrics
    /\ Planned(PlanAfterFailure, <<Ev("throw", "Orchestrator", -1, "plan", <<"call">>, <<>>)>>)


\* ----------------------------------------------------- Phase 2: execution
\* a mutant of ResultText: the text of a paused result is dropped
ResultTextUnlessPaused(tk) == IF tk.isPaused THEN <<>> ELSE tk.text

\* result.text, res.text: the text of what executeAgent returned, paused or not
ResultText(tk) == tk.text

N == Len(plan.steps)

RECURSIVE StartAll(_, _)
\* plan.steps.map(step => executeAgent(...)): each call runs to its first await,
\* one after the other in plan order
StartAll(k, ctx) ==
    IF k > N THEN <<>>
    ELSE <<Called(k - 1, plan.steps[k].agent, plan.steps[k].instruction, ctx)>>
         \o StartAll(k + 1, ctx)

\* a mutant of OnFreshPlan: the branches of Phase 2 do not look at resumeState
OnFreshPlanAlways == TRUE

\* !resumeState in the conditions of the PARALLEL, LOOP and DIRECT branches
OnFreshPlan == ~Resumed

\* if (plan.mode === PARALLEL && !resumeState)
DispatchParallel ==
    /\ pc = "dispatch"
    /\ plan.mode = PARALLEL /\ OnFreshPlan
    /\ tasks' = [k \in 1..N |-> StartTask(k - 1, plan.steps[k].agent,
                                          plan.steps[k].instruction, accumulatedContext)]
    /\ trace' = Append(trace, LogLine("System", -1, "Spawning parallel agents", <<>>))
                \o StartAll(1, accumulatedContext)
    /\ pc' = "par_wait"
    /\ Observed(StartedEvents(tasks'))
    /\ UNCHANGED <<inputs, resumeState, locals, result, bank, metrics, budget>>

\* a mutant of MergeOrder: the results are merged last promise first
MergeOrderReversed == [k \in 1..Len(tasks) |-> Len(tasks) + 1 - k]

\* the tasks in the order their results are merged: Promise.all keeps the order
\* of the promises it was given
MergeOrder == [k \in 1..Len(tasks) |-> k]

RECURSIVE MergeOutputs(_, _)
\* results.forEach(r => { agentOutputs[r.agent] = r.result.text; ... })
MergeOutputs(outs, order) ==
    IF order = <<>> THEN outs
    ELSE MergeOutputs(SetOutput(outs, tasks[Head(order)].agent,
                                ResultText(tasks[Head(order)])),
                      Tail(order))

RECURSIVE MergeToolUsage(_, _)
\* if (r.result.toolUsage) toolUsageLog.push(...r.result.toolUsage)
MergeToolUsage(log, order) ==
    IF order = <<>> THEN log
    ELSE MergeToolUsage(log \o tasks[Head(order)].toolUsage, Tail(order))

AllReturned == \A t \in 1..Len(tasks) : tasks[t].st = "returned"
SomeThrew == \E t \in 1..Len(tasks) : tasks[t].st = "threw"

\* a mutant of JoinReady: the join never fulfils
JoinReadyNever == FALSE

\* a mutant of JoinReady: the merge does not wait for every task
JoinReadyAny == \E t \in 1..Len(tasks) : tasks[t].st = "returned"

\* a mutant of JoinReady: Promise.allSettled in place of Promise.all
JoinReadySettled == \A t \in 1..Len(tasks) : tasks[t].st \in {"returned", "threw"}

\* await Promise.all(promises) fulfils when every promise has fulfilled
JoinReady == AllReturned

\* Promise.all has fulfilled: the results are merged
ParallelJoin ==
    /\ pc = "par_wait"
    /\ JoinReady
    /\ agentOutputs' = MergeOutputs(agentOutputs, MergeOrder)
    /\ toolUsageLog' = MergeToolUsage(toolUsageLog, MergeOrder)
    /\ trace' = Append(trace, LogLine("System", -1, "Parallel tasks completed", <<>>))
    /\ pc' = "synth_entry"
    /\ UNCHANGED <<inputs, execLog, resumeState, plan, contextSummary, accumulatedContext,
                   startStepIndex, i, currentDraft, critic, parsed, tasks, result, bank,
                   metrics, budget>>

\* Promise.all rejects as soon as one promise rejects; nothing catches it
ParallelRejects ==
    /\ pc = "par_wait"
    /\ SomeThrew
    /\ pc' = "failed"
    /\ UNCHANGED <<inputs, execLog, resumeState, locals, tasks, result, bank, metrics, trace,
                   budget>>

\* a mutant of DispatchSequential: the steps are started together, as in the
\* PARALLEL branch
DispatchSequentialFanOut ==
    /\ pc = "dispatch"
    /\ plan.mode = SEQUENTIAL
    /\ tasks' = [k \in 1..N |-> StartTask(k - 1, plan.steps[k].agent,
                                          plan.steps[k].instruction, accumulatedContext)]
    /\ trace' = Append(trace, LogLine("System", -1, "Executing sequential workflow", <<>>))
                \o StartAll(1, accumulatedContext)
    /\ pc' = "par_wait"
    /\ Observed(StartedEvents(tasks'))
    /\ UNCHANGED <<inputs, resumeState, locals, result, bank, metrics, budget>>

\* else if (plan.mode === SEQUENTIAL)
DispatchSequential ==
    /\ pc = "dispatch"
    /\ ~(plan.mode = PARALLEL /\ OnFreshPlan)
    /\ plan.mode = SEQUENTIAL
    /\ i' = startStepIndex
    /\ trace' = Append(trace, LogLine("System", -1, "Executing sequential workflow", <<>>))
    /\ pc' = "seq_loop"
    /\ UNCHANGED <<inputs, execLog, resumeState, plan, contextSummary, accumulatedContext,
                   agentOutputs, startStepIndex, toolUsageLog, currentDraft, critic,
                   parsed, tasks, result, bank, metrics, budget>>

\* for (let i = startStepIndex; i < plan.steps.length; i++): step i is started
SequentialStep ==
    /\ pc = "seq_loop"
    /\ i < N
    /\ LET step == plan.steps[i + 1]
       IN  /\ tasks' = <<StartTask(i, step.agent, step.instruction, accumulatedContext)>>
           /\ trace' = trace \o
                  << LogLine("System", i, "Running step", <<step.agent>>),
                     Called(i, step.agent, step.instruction, accumulatedContext) >>
    /\ pc' = "seq_wait"
    /\ Observed(StartedEvents(tasks'))
    /\ UNCHANGED <<inputs, resumeState, locals, result, bank, metrics, budget>>

\* the loop ends
SequentialCompleted ==
    /\ pc = "seq_loop"
    /\ ~(i < N)
    /\ trace' = Append(trace, LogLine("System", -1, "Sequential workflow completed", <<>>))
    /\ pc' = "synth_entry"
    /\ UNCHANGED <<inputs, execLog, resumeState, locals, tasks, result, bank, metrics, budget>>

\* a mutant of PausedStepIndex: the checkpoint skips the step after the paused one
PausedStepIndexSkipping(k) == k + 2

\* a mutant of PausedStepIndex: the checkpoint names the paused step itself
PausedStepIndexSame(k) == k

\* stepIndex: i + 1
PausedStepIndex(k) == k + 1

\* accumulatedContext + `\n[Paused Step ${step.agent}]: ${result.text}`
PausedContext(ctx, agent, text) == ctx \o <<"\n[Paused Step ", agent, "]: ">> \o text

\* a mutant of OutputContext: the output replaces the running context
OutputContextReplaced(ctx, agent, text) == <<"\n[Output from ", agent, "]: ">> \o text

\* accumulatedContext += `\n[Output from ${step.agent}]: ${result.text}`
OutputContext(ctx, agent, text) == ctx \o <<"\n[Output from ", agent, "]: ">> \o text

\* if (result.isPaused) return { ..., executionMode: PAUSED, pausedState: {...} }
SequentialPaused ==
    /\ pc = "seq_wait"
    /\ tasks[1].st = "returned"
    /\ tasks[1].isPaused
    /\ toolUsageLog' = toolUsageLog \o tasks[1].toolUsage
    /\ trace' = Append(trace, LogLine("System", i, "Workflow paused by",
                                      <<tasks[1].agent>>))
    /\ result' = RunResult("paused", <<"Workflow Paused: ">> \o tasks[1].pauseReason,
                           PAUSED, <<plan.steps[i + 1].agent>>,
                           PausedState(plan, PausedStepIndex(i),
                                       PausedContext(accumulatedContext,
                                                     plan.steps[i + 1].agent,
                                                     tasks[1].text),
                                       agentOutputs),
                           NoEvaluation, <<>>)
    /\ pc' = "paused"
    /\ UNCHANGED <<inputs, execLog, resumeState, plan, contextSummary, accumulatedContext,
                   agentOutputs, startStepIndex, i, currentDraft, critic, parsed, tasks,
                   bank, metrics, budget>>

\* the step has completed: its output is recorded and the loop goes on
SequentialRecorded ==
    /\ pc = "seq_wait"
    /\ tasks[1].st = "returned"
    /\ ~tasks[1].isPaused
    /\ toolUsageLog' = toolUsageLog \o tasks[1].toolUsage
    /\ WriteOutputs(SetOutput(agentOutputs, plan.steps[i + 1].agent, tasks[1].text))
    /\ accumulatedContext' = OutputContext(accumulatedContext, plan.steps[i + 1].agent,
                                           tasks[1].text)
    /\ i' = i + 1
    /\ pc' = "seq_loop"
    /\ UNCHANGED <<inputs, execLog, plan, contextSummary, startStepIndex, currentDraft, critic,
                   parsed, tasks, result, bank, metrics, trace, budget>>


\* plan.steps[0] of an empty steps array is undefined: reading .agent throws
FirstStepMissing == N = 0

\* else if (plan.mode === LOOP && !resumeState): the draft call
DispatchLoop ==
    /\ pc = "dispatch"
    /\ plan.mode \notin {PARALLEL, SEQUENTIAL}
    /\ plan.mode = LOOP /\ OnFreshPlan
    /\ IF FirstStepMissing
       THEN /\ trace' = Append(trace, LogLine("System", -1, "Initiating refinement loop",
                                              <<>>))
            /\ pc' = "failed"
            /\ UNCHANGED <<tasks, execLog>>
       ELSE /\ tasks' = <<StartTask(0, plan.steps[1].agent, plan.steps[1].instruction,
                                    accumulatedContext)>>
            /\ trace' = trace \o
                   << LogLine("System", -1, "Initiating refinement loop", <<>>),
                      Called(0, plan.steps[1].agent, plan.steps[1].instruction,
                             accumulatedContext) >>
            /\ pc' = "loop_draft"
            /\ Observed(StartedEvents(tasks'))
    /\ UNCHANGED <<inputs, resumeState, locals, result, bank, metrics, budget>>

\* the draft has returned: ORCHESTRATOR is asked for a critique
LoopCritique ==
    /\ pc = "loop_draft"
    /\ tasks[1].st = "returned"
    /\ currentDraft' = ResultText(tasks[1])
    /\ tasks' = <<StartTask(-1, ORCHESTRATOR, <<"Critique: ">> \o ResultText(tasks[1]),
                            <<>>)>>
    /\ trace' = Append(trace, Called(-1, ORCHESTRATOR,
                                     <<"Critique: ">> \o ResultText(tasks[1]),
                                     <<>>))
    /\ pc' = "loop_critic"
    /\ Observed(StartedEvents(tasks'))
    /\ UNCHANGED <<inputs, resumeState, plan, contextSummary, accumulatedContext,
                   agentOutputs, startStepIndex, i, toolUsageLog, critic, parsed, result,
                   bank, metrics, budget>>

\* a mutant of RefineContext: the refine call is given no draft
RefineContextNone(draft) == <<>>

\* `Draft: ${currentDraft}`
RefineContext(draft) == <<"Draft: ">> \o draft

\* the critique has returned: the first step's agent is asked to refine
LoopRefine ==
    /\ pc = "loop_critic"
    /\ tasks[1].st = "returned"
    /\ critic' = ResultText(tasks[1])
    /\ tasks' = <<StartTask(0, plan.steps[1].agent,
                            <<"Refine based on: ">> \o ResultText(tasks[1]),
                            RefineContext(currentDraft))>>
    /\ trace' = Append(trace, Called(0, plan.steps[1].agent,
                                     <<"Refine based on: ">> \o ResultText(tasks[1]),
                                     RefineContext(currentDraft)))
    /\ pc' = "loop_refine"
    /\ Observed(StartedEvents(tasks'))
    /\ UNCHANGED <<inputs, resumeState, plan, contextSummary, accumulatedContext,
                   agentOutputs, startStepIndex, i, toolUsageLog, currentDraft, parsed,
                   result, bank, metrics, budget>>

\* agentOutputs[plan.steps[0].agent] = refined
LoopRecorded ==
    /\ pc = "loop_refine"
    /\ tasks[1].st = "returned"
    /\ agentOutputs' = SetOutput(agentOutputs, plan.steps[1].agent, ResultText(tasks[1]))
    /\ pc' = "synth_entry"
    /\ UNCHANGED <<inputs, execLog, resumeState, plan, contextSummary, accumulatedContext,
                   startStepIndex, i, toolUsageLog, currentDraft, critic, parsed, tasks,
                   result, bank, metrics, trace, budget>>

\* else if (!resumeState): DIRECT, and every mode the branches above do not take
DispatchDirect ==
    /\ pc = "dispatch"
    /\ plan.mode \notin {PARALLEL, SEQUENTIAL, LOOP}
    /\ OnFreshPlan
    /\ IF FirstStepMissing
       THEN /\ pc' = "failed"
            /\ UNCHANGED <<tasks, trace, execLog>>
       ELSE /\ tasks' = <<StartTask(0, plan.steps[1].agent, plan.steps[1].instruction,
                                    accumulatedContext)>>
            /\ trace' = Append(trace, Called(0, plan.steps[1].agent,
                                             plan.steps[1].instruction, accumulatedContext))
            /\ pc' = "direct_wait"
            /\ Observed(StartedEvents(tasks'))
    /\ UNCHANGED <<inputs, resumeState, locals, result, bank, metrics, budget>>

DirectRecorded ==
    /\ pc = "direct_wait"
    /\ tasks[1].st = "returned"
    /\ agentOutputs' = SetOutput(agentOutputs, plan.steps[1].agent, ResultText(tasks[1]))
    /\ toolUsageLog' = toolUsageLog \o tasks[1].toolUsage
    /\ pc' = "synth_entry"
    /\ UNCHANGED <<inputs, execLog, resumeState, plan, contextSummary, accumulatedContext,
                   startStepIndex, i, currentDraft, critic, parsed, tasks, result, bank,
                   metrics, trace, budget>>

\* a resumed run whose plan is not SEQUENTIAL takes no branch of Phase 2
DispatchNothing ==
    /\ pc = "dispatch"
    /\ plan.mode # SEQUENTIAL
    /\ ~OnFreshPlan
    /\ pc' = "synth_entry"
    /\ UNCHANGED <<inputs, execLog, resumeState, locals, tasks, result, bank, metrics, trace,
                   budget>>

\* an awaited executeAgent call of the SEQUENTIAL, LOOP or DIRECT branch rejects
AwaitedCallRejects ==
    /\ pc \in {"seq_wait", "loop_draft", "loop_critic", "loop_refine", "direct_wait"}
    /\ tasks[1].st = "threw"
    /\ pc' = "failed"
    /\ UNCHANGED <<inputs, execLog, resumeState, locals, tasks, result, bank, metrics, trace,
                   budget>>

\* --------------------------------------- Phase 3 and 4: synthesis, evaluation
\* the synthesis call is made with the outputs and the tools used
SynthesisStarts ==
    /\ pc = "synth_entry"
    /\ trace' = trace \o
           << LogLine("Orchestrator", -1, "Synthesizing final response", <<>>),
              Ev("call", "Orchestrator", -1, "synthesize", toolUsageLog, <<>>) >>
    /\ pc' = "synth"
    /\ UNCHANGED <<inputs, execLog, resumeState, locals, tasks, result, bank, metrics, budget>>

\* a mutant of EvaluationCalls: the evaluation is skipped
EvaluationCallsNone(text) == <<>>

\* onLog("System: Running Post-Task Evaluation..."); evaluateResponse(prompt, ...)
EvaluationCalls(text) ==
    << LogLine("System", -1, "Running Post-Task Evaluation", <<>>),
       Ev("call", "System", -1, "score", text, <<>>) >>

\* the answer is parsed and evaluateResponse is called
SynthesisReturns(text) ==
    /\ pc = "synth"
    /\ parsed' = text
    /\ trace' = Append(trace, Ev("return", "Orchestrator", -1, "synthesize", text, <<>>))
                \o EvaluationCalls(text)
    /\ pc' = "eval"
    /\ UNCHANGED <<inputs, execLog, resumeState, plan, contextSummary, accumulatedContext,
                   agentOutputs, startStepIndex, i, toolUsageLog, currentDraft, critic,
                   tasks, result, bank, metrics, budget>>

\* a mutant of SynthesisFailureTarget: the failure is recovered
SynthesisFailureRecovered == "eval"

\* generateContent rejects, or JSON.parse(finalResponse.text) throws: nothing
\* catches it
SynthesisFailureTarget == "failed"

SynthesisFails ==
    /\ pc = "synth"
    /\ pc' = SynthesisFailureTarget
    /\ trace' = Append(trace, Ev("throw", "Orchestrator", -1, "synthesize", <<>>, <<>>))
                \o (IF SynthesisFailureTarget = "failed" THEN <<>>
                    ELSE EvaluationCalls(<<>>))
    /\ UNCHANGED <<inputs, execLog, resumeState, locals, tasks, result, bank, metrics, budget>>

\* a mutant of ActiveAgents: the agents of the steps this run has executed
ActiveAgentsExecuted ==
    [k \in 1..(N - startStepIndex) |-> plan.steps[startStepIndex + k].agent]

\* activeAgents: plan.steps.map(s => s.agent)
ActiveAgents == [k \in 1..N |-> plan.steps[k].agent]

Finished(ev, outcome) ==
    /\ pc = "eval"
    /\ trace' = Append(trace, Ev(outcome, "System", -1, "score", <<>>, <<>>))
    /\ metrics' = Append(metrics, Metric("TotalLatency"))
    /\ result' = RunResult("done", parsed, plan.mode, ActiveAgents, NoState, ev,
                           getRecentMetrics(metrics', 5))
    /\ pc' = "done"
    /\ UNCHANGED <<inputs, execLog, resumeState, locals, tasks, bank, budget>>

\* evaluateResponse returns the parsed score
EvaluationReturns(score) ==
    Finished(Evaluation(score, <<"feedback">>, 0, TokenCost(parsed)), "return")

\* the scoring call rejects or its answer does not parse: the default is returned
EvaluationFails ==
    Finished(DefaultEvaluation, "throw")

\* the caller hands the pausedState of a paused run to a new run
ResumeRun ==
    /\ pc = "paused"
    /\ runs < MaxRuns
    /\ resumeState' = result.pausedState
    /\ given' = result.pausedState
    /\ runs' = runs + 1
    /\ pc' = "start"
    /\ plan' = NoPlan
    /\ contextSummary' = <<>>
    /\ accumulatedContext' = <<>>
    /\ agentOutputs' = <<>>
    /\ startStepIndex' = 0
    /\ i' = 0
    /\ toolUsageLog' = <<>>
    /\ currentDraft' = <<>>
    /\ critic' = <<>>
    /\ parsed' = <<>>
    /\ tasks' = <<>>
    /\ result' = NoResult
    /\ trace' = <<>>
    /\ budget' = MaxToolCalls
    /\ execLog' = IF execLog = NotKept THEN NotKept ELSE <<>>
    /\ UNCHANGED <<apiKey, history, bank, metrics, count, recent>>

Next ==
    \/ \E t \in 1..MaxSteps + 1, r \in RunResponses : Respond(t, r)
    \/ \E t \in 1..MaxSteps + 1 : SendFails(t)
    \/ \E t \in 1..MaxSteps + 1 : Fetched(t)
    \/ NoApiKey
    \/ CompactionTriggered
    \/ CompactionSkipped
    \/ \E text \in SummaryTexts : CompactionReturns(text)
    \/ CompactionFails
    \/ Restore
    \/ PlanningStarts
    \/ \E p \in PlannerPlans : PlanReturns(p)
    \/ PlanUnparsable
    \/ PlanFails
    \/ DispatchParallel
    \/ ParallelJoin
    \/ ParallelRejects
    \/ DispatchSequential
    \/ SequentialStep
    \/ SequentialCompleted
    \/ SequentialPaused
    \/ SequentialRecorded
    \/ DispatchLoop
    \/ LoopCritique
    \/ LoopRefine
    \/ LoopRecorded
    \/ DispatchDirect
    \/ DirectRecorded
    \/ DispatchNothing
    \/ AwaitedCallRejects
    \/ SynthesisStarts
    \/ \E text \in SynthTexts : SynthesisReturns(text)
    \/ SynthesisFails
    \/ \E score \in ScoreAnswers : EvaluationReturns(score)
    \/ EvaluationFails
    \/ ResumeRun

Spec == Init /\ [][Next]_vars

\* the metrics an earlier DIRECT run of the process has recorded
EarlierMetrics ==
    <<Metric("PlanningLatency"), Metric("AgentExecutionTime"), Metric("TotalLatency")>>

\* a run of a process whose trace recorder holds the metrics of an earlier run
InitResult ==
    /\ apiKey \in BOOLEAN
    /\ history \in Histories
    /\ resumeState \in {NoState} \cup {ps \in ResumeInputs : WellFormed(ps)}
    /\ given = resumeState
    /\ budget = MaxToolCalls
    /\ EnteredAfter(EarlierMetrics)
    /\ execLog = NotKept

SpecResult == InitResult /\ [][Next]_vars

\* one executeAgent call of a DIRECT run, with every kind of response, for a
\* plan of one step and a plan of two
DirectPlans ==
    {[mode |-> DIRECT, steps |-> s, reasoning |-> <<"why">>] :
        s \in {<<Step(HEALTH, <<"i1">>)>>,
               <<Step(HEALTH, <<"i1">>), Step(EDUCATION, <<"i1">>)>>}}

NextExec ==
    \/ \E r \in ExecResponses : Respond(1, r)
    \/ SendFails(1)
    \/ Fetched(1)
    \/ CompactionSkipped
    \/ PlanningStarts
    \/ \E p \in DirectPlans : PlanReturns(p)
    \/ DispatchDirect
    \/ DirectRecorded
    \/ AwaitedCallRejects

SpecExec == InitExec /\ [][NextExec]_vars

\* the start of a run up to its planning call, for every length of the prior
\* conversation up to MaxHistory, fresh or resumed
InitHistory ==
    /\ apiKey = TRUE
    /\ history \in HistoriesUpTo
    /\ resumeState \in {NoState} \cup {ps \in ResumeInputs : WellFormed(ps)}
    /\ given = resumeState
    /\ budget = 0
    /\ Entered
    /\ execLog = NotKept

NextHistory ==
    \/ CompactionTriggered
    \/ CompactionSkipped
    \/ \E text \in HistorySummaryTexts : CompactionReturns(text)
    \/ CompactionFails
    \/ Restore
    \/ PlanningStarts

SpecHistory == InitHistory /\ [][NextHistory]_vars

\* a fresh PARALLEL run of two sibling executors, in which the reasoning
\* service may answer with up to MaxParCalls function calls that fetch a record
\* signal a pause, or file one of two items in one of two lists
ParallelPlans ==
    {[mode |-> PARALLEL, steps |-> <<Step(HEALTH, <<"i1">>), Step(EDUCATION, <<"i1">>)>>,
      reasoning |-> <<"why">>]}

ParallelCalls == {FetchCall, PauseCall} \cup UpdateCalls({"health", "note"}, {"x", "y"})

ParallelResponses ==
    {Response(<<"a">>, <<>>, FALSE, FALSE)}
    \cup {Response(<<"a">>, <<c>>, FALSE, FALSE) : c \in ParallelCalls}

InitParallel ==
    /\ apiKey = TRUE
    /\ history = <<>>
    /\ resumeState = NoState
    /\ given = NoState
    /\ budget = MaxParCalls
    /\ Entered
    /\ execLog = <<>>

NextParallel ==
    \/ \E t \in 1..2, r \in ParallelResponses : Respond(t, r)
    \/ \E t \in 1..2 : SendFails(t)
    \/ \E t \in 1..2 : Fetched(t)
    \/ CompactionSkipped
    \/ PlanningStarts
    \/ \E p \in ParallelPlans : PlanReturns(p)
    \/ DispatchParallel
    \/ ParallelJoin
    \/ ParallelRejects

SpecParallel == InitParallel /\ [][NextParallel]_vars

\* one invocation of runMultiAgentSystem from its entry to its end, for every
\* input of Init, in which each executor may be answered with a record fetch or
\* a pause as often as it asks: no bound of the model ends a run
LiveResponses ==
    {Response(<<"a">>, <<>>, FALSE, FALSE),
     Response(<<"a">>, <<FetchCall>>, FALSE, FALSE),
     Response(<<"a">>, <<PauseCall>>, FALSE, FALSE)}

\* the planning answers of SpecLive: every mode and every number of steps, the
\* steps addressing HEALTH and EDUCATION in turn (which agent a step addresses
\* decides no branch of the run)
LivePlans ==
    {p \in PlannerPlans :
        \A k \in 1..Len(p.steps) :
            p.steps[k].agent = IF k % 2 = 1 THEN HEALTH ELSE EDUCATION}

InitLive ==
    /\ apiKey \in BOOLEAN
    /\ history \in Histories
    /\ resumeState \in {NoState} \cup {ps \in ResumeInputs : WellFormed(ps)}
    /\ given = resumeState
    /\ budget = MaxLiveCalls
    /\ execLog = NotKept
    /\ Entered

NextLive ==
    \/ \E t \in 1..MaxSteps + 1, r \in LiveResponses : Respond(t, r)
    \/ \E t \in 1..MaxSteps + 1 : SendFails(t)
    \/ \E t \in 1..MaxSteps + 1 : Fetched(t)
    \/ NoApiKey
    \/ CompactionTriggered
    \/ CompactionSkipped
    \/ \E text \in SummaryTexts : CompactionReturns(text)
    \/ CompactionFails
    \/ Restore
    \/ PlanningStarts
    \/ \E p \in LivePlans : PlanReturns(p)
    \/ PlanUnparsable
    \/ PlanFails
    \/ DispatchParallel
    \/ ParallelJoin
    \/ ParallelRejects
    \/ DispatchSequential
    \/ SequentialStep
    \/ SequentialCompleted
    \/ SequentialPaused
    \/ SequentialRecorded
    \/ DispatchLoop
    \/ LoopCritique
    \/ LoopRefine
    \/ LoopRecorded
    \/ DispatchDirect
    \/ DirectRecorded
    \/ DispatchNothing
    \/ AwaitedCallRejects
    \/ SynthesisStarts
    \/ \E text \in SynthTexts : SynthesisReturns(text)
    \/ SynthesisFails
    \/ \E score \in ScoreAnswers : EvaluationReturns(score)
    \/ EvaluationFails

\* every external call is eventually answered or fails, and the event loop
\* runs every continuation that is ready
SpecLive == InitLive /\ [][NextLive]_vars /\ WF_vars(NextLive)

\* the memory bank on its own: any sequence of calls of its methods that file
\* a text, starting from the default context
MemoryItems == {"x", "y", "z"}

MemoryKeys == {"healthConditions", "learningGoals", "ecoPreferences"}

InitMemory ==
    /\ apiKey = TRUE
    /\ history = <<>>
    /\ resumeState = NoState
    /\ given = NoState
    /\ budget = 0
    /\ Entered
    /\ execLog = NotKept

\* memoryBank.addNote(note)
AddNote(note) ==
    /\ memory' = addNote(memory, note)
    /\ defaults' = SharedLists(defaults, own, memory')
    /\ own' = own
    /\ UNCHANGED <<inputs, execLog, resumeState, pc, locals, tasks, result, metrics, trace,
                   budget>>

\* memoryBank.addArrayItem(key, item)
AddArrayItem(key, item) ==
    /\ memory' = addArrayItem(memory, key, item)
    /\ defaults' = SharedLists(defaults, own, memory')
    /\ own' = own
    /\ UNCHANGED <<inputs, execLog, resumeState, pc, locals, tasks, result, metrics, trace,
                   budget>>

NextMemory ==
    \/ \E note \in MemoryItems : AddNote(note)
    \/ \E key \in MemoryKeys, item \in MemoryItems : AddArrayItem(key, item)

SpecMemory == InitMemory /\ [][NextMemory]_vars

\* the memory bank over the life of the page: the calls of its methods, clear()
\* among them, and the reload that constructs it anew from what was saved
ClearItems == {"x", "y"}

\* memoryBank.updateContext({ name: item }): a new object with the same lists
UpdateContext(item) ==
    /\ memory' = updateContextName(memory, item)
    /\ UNCHANGED <<inputs, execLog, resumeState, pc, locals, tasks, result, defaults, own,
                   metrics, trace, budget>>

\* memoryBank.clear()
Clear ==
    /\ memory' = clear(defaults)
    /\ own' = {}
    /\ UNCHANGED <<inputs, execLog, resumeState, pc, locals, tasks, result, defaults, metrics,
                   trace, budget>>

\* the page is loaded again after a save(): the module creates DEFAULT_CONTEXT
\* anew, and load() lays the parsed copy of the saved context over it, whose
\* lists are arrays of its own
Load ==
    /\ memory # DEFAULT_CONTEXT
    /\ memory' = memory
    /\ defaults' = DefaultLists
    /\ own' = ListKeys
    /\ UNCHANGED <<inputs, execLog, resumeState, pc, locals, tasks, result, metrics, trace,
                   budget>>

NextClear ==
    \/ \E note \in ClearItems : AddNote(note)
    \/ \E key \in MemoryKeys, item \in ClearItems : AddArrayItem(key, item)
    \/ \E item \in ClearItems : UpdateContext(item)
    \/ Clear
    \/ Load

SpecClear == InitMemory /\ [][NextClear]_vars

\* the trace recorder on its own: any sequence of calls of its methods, with
\* logs of up to MaxMetrics entries
MetricNames == {"AgentExecutionTime", "TotalLatency"}

\* traceService.recordMetric(name, value, unit)
RecordMetric(name) ==
    /\ Len(metrics) < MaxMetrics
    /\ metrics' = Append(metrics, Metric(name))
    /\ count' = -1
    /\ recent' = <<>>
    /\ UNCHANGED <<apiKey, history, given, runs, execLog, resumeState, pc, locals, tasks, result,
                   bank, trace, budget>>

\* traceService.clear()
ClearMetrics ==
    /\ metrics' = <<>>
    /\ count' = -1
    /\ recent' = <<>>
    /\ UNCHANGED <<apiKey, history, given, runs, execLog, resumeState, pc, locals, tasks, result,
                   bank, trace, budget>>

\* traceService.getRecentMetrics(n)
GetRecentMetrics(n) ==
    /\ count' = n
    /\ recent' = getRecentMetrics(metrics, n)
    /\ UNCHANGED <<apiKey, history, given, runs, execLog, resumeState, pc, locals, tasks, result,
                   bank, metrics, trace, budget>>

\* traceService.getRecentMetrics()
GetRecentDefault == GetRecentMetrics(DefaultCount)

NextTrace ==
    \/ \E name \in MetricNames : RecordMetric(name)
    \/ ClearMetrics
    \/ \E n \in 0..MaxMetrics + 1 : GetRecentMetrics(n)
    \/ GetRecentDefault

SpecTrace == InitMemory /\ [][NextTrace]_vars

\* ------------------------------------------------------ what a run has done
\* the positions of the trace at which the run called an external collaborator
CallsTo(what) == {k \in 1..Len(trace) : trace[k].k = "call" /\ trace[k].what = what}

\* whether a call to the collaborator has failed in this run
Threw(what) == \E k \in 1..Len(trace) : trace[k].k = "throw" /\ trace[k].what = what

\* whether a 0-based step index at or after k of the plan addresses the agent
AddressedFrom(p, k, a) == \E j \in (k + 1)..Len(p.steps) : p.steps[j].agent = a

\* ----------------------------------------------------------------- C1
\* C1: a SEQUENTIAL run whose executor for step i has signalled a pause has
\* returned with executionMode PAUSED and a PausedState that holds stepIndex
\* i + 1, the running plan, and the context handed to step i followed by the
\* annotation of the paused step's text; it has called no executor for a step
\* after i, nor the Synthesizer, nor the Evaluator, and the paused text is in
\* no entry of agentOutputs.
C1_PauseReturnsCheckpoint ==
    pc = "paused" =>
        /\ plan.mode = SEQUENTIAL
        /\ tasks[1].isPaused /\ tasks[1].step = i
        /\ result.kind = "paused"
        /\ result.executionMode = PAUSED
        /\ result.pausedState.stepIndex = i + 1
        /\ result.pausedState.plan = plan
        /\ result.pausedState.accumulatedContext =
               tasks[1].context \o <<"\n[Paused Step ", plan.steps[i + 1].agent, "]: ">>
               \o tasks[1].text
        /\ \A k \in CallsTo("executeAgent") : trace[k].step <= i
        /\ \E k \in CallsTo("executeAgent") :
               /\ trace[k].step = i
               /\ trace[k].ctx = tasks[1].context
               /\ \A m \in CallsTo("executeAgent") : m <= k
        /\ CallsTo("synthesize") = {} /\ CallsTo("score") = {}
        /\ result.pausedState.agentOutputs = agentOutputs
        /\ \A k \in 1..Len(agentOutputs) : agentOutputs[k].text # tasks[1].text

\* a pause at the first of two steps, after which a step remains
C1_Witness ==
    /\ pc = "paused"
    /\ i = 0 /\ N = 2
    /\ tasks[1].text = <<"Workflow Paused: ", "r1">>

\* ----------------------------------------------------------------- C2
\* C2: a run resumed from a SEQUENTIAL PausedState with stepIndex k never calls
\* the Planner nor an executor for a step before k; its plan is the
\* checkpoint's plan once restored; its first executor call, if any, is for step k; and each
\* agentOutputs entry of the checkpoint is handed to the Synthesizer with its
\* text unless a step with index >= k addresses the same agent.
C2_ResumeSkipsCompletedSteps ==
    (given # NoState /\ given.plan.mode = SEQUENTIAL) =>
        /\ CallsTo("plan") = {}
        /\ plan \in {NoPlan, given.plan}
        /\ pc \notin {"start", "compacting", "phase1", "failed"} => plan = given.plan
        /\ \A k \in CallsTo("executeAgent") : trace[k].step >= given.stepIndex
        /\ CallsTo("executeAgent") # {} =>
               \E k \in CallsTo("executeAgent") :
                   /\ trace[k].step = given.stepIndex
                   /\ \A m \in CallsTo("executeAgent") : k <= m
        /\ pc = "synth" =>
               \A e \in 1..Len(given.agentOutputs) :
                   LET a == given.agentOutputs[e].agent
                   IN  ~AddressedFrom(given.plan, given.stepIndex, a) =>
                           /\ HasKey(agentOutputs, a)
                           /\ Get(agentOutputs, a) = given.agentOutputs[e].text

\* a resumption at the second of two steps that has reached the Synthesizer
\* with a stored entry no remaining step addresses
C2_Witness ==
    /\ given # NoState /\ given.plan.mode = SEQUENTIAL
    /\ given.stepIndex = 1 /\ Len(given.plan.steps) = 2
    /\ given.agentOutputs # <<>>
    /\ ~AddressedFrom(given.plan, 1, HEALTH)
    /\ CallsTo("executeAgent") # {}
    /\ pc = "synth"

\* ----------------------------------------------------------------- C3
\* the positions of a task's record at which it did the named thing
Did(tk, kind, what) ==
    {k \in 1..Len(tk.events) : tk.events[k].k = kind /\ tk.events[k].what = what}

\* C3: one executeAgent call sends at most 5 function responses, and when
\* every response of the collaborator carried a fetchMedicalRecords or an
\* updateMemory call, the call has returned only after exactly 5 resolved
\* turns and 5 function responses, and its result is not paused.
C3_ToolLoopBounded ==
    \A t \in 1..Len(tasks) :
        LET tk == tasks[t]
        IN  /\ Cardinality(Did(tk, "call", "sendFunctionResponse")) <= 5
            /\ tk.fnSent = Cardinality(Did(tk, "call", "sendFunctionResponse"))
            /\ tk.turns <= 5
            /\ (tk.st = "returned" /\ tk.allTools) =>
                   /\ tk.turns = 5
                   /\ Cardinality(Did(tk, "call", "sendFunctionResponse")) = 5
                   /\ ~tk.isPaused
                   /\ Did(tk, "return", "completed") = {Len(tk.events)}

\* an executor that has returned after six responses that all carried a
\* recognised call other than pauseWorkflow, both kinds among them
C3_Witness ==
    \E t \in 1..Len(tasks) :
        /\ tasks[t].st = "returned" /\ tasks[t].allTools
        /\ budget = 0
        /\ \E a, b \in 1..Len(tasks[t].toolUsage) :
               /\ tasks[t].toolUsage[a] = "fetchMedicalRecords"
               /\ tasks[t].toolUsage[b] = "updateMemory"

\* ----------------------------------------------------------------- C4
\* the positions of a task's record at which it logged the pauseWorkflow call
SawPause(tk) ==
    {k \in 1..Len(tk.events) :
        /\ tk.events[k].k = "log" /\ tk.events[k].what = "TOOL"
        /\ tk.events[k].arg = <<"pauseWorkflow">>}

\* C4: once an executor has seen a pauseWorkflow call, on any of its turns 0 to 4,
\* it has returned with isPaused true, the text "Workflow Paused: <reason>" and
\* pauseReason the reason, and the only thing it did after seeing the call is that
\* return: no message sent, no record fetched, no memory update.
C4_PauseReturnsImmediately ==
    \A t \in 1..Len(tasks) :
        LET tk == tasks[t]
        IN  SawPause(tk) # {} =>
                /\ tk.st = "returned"
                /\ tk.isPaused
                /\ tk.call.name = "pauseWorkflow"
                /\ tk.text = <<"Workflow Paused: ", tk.call.a1>>
                /\ tk.pauseReason = <<tk.call.a1>>
                /\ tk.turns \in 0..4
                /\ SawPause(tk) = {Len(tk.events) - 1}
                /\ Did(tk, "return", "paused") = {Len(tk.events)}
                /\ Len(tk.toolUsage) > 0
                /\ tk.toolUsage[Len(tk.toolUsage)] = "pauseWorkflow"

\* a pause on the last turn the loop runs, after four resolved turns
C4_Witness ==
    \E t \in 1..Len(tasks) :
        /\ SawPause(tasks[t]) # {}
        /\ tasks[t].turns = 4
        /\ tasks[t].isPaused

\* ----------------------------------------------------------------- C5
\* C5: in a PARALLEL run one of whose executor calls has failed, the run fails
\* or is about to: it has no result, has merged nothing into agentOutputs or
\* the tool usage log, and has called neither the Synthesizer nor the Evaluator.
C5_ParallelAllOrNothing ==
    (plan.mode = PARALLEL /\ given = NoState /\ SomeThrew) =>
        /\ pc \in {"par_wait", "failed"}
        /\ result = NoResult
        /\ agentOutputs = <<>>
        /\ toolUsageLog = <<>>
        /\ CallsTo("synthesize") = {}
        /\ CallsTo("score") = {}

\* a failed PARALLEL run in which one executor failed and another returned
C5_Witness ==
    /\ plan.mode = PARALLEL /\ given = NoState
    /\ pc = "failed"
    /\ \E t, u \in 1..Len(tasks) : tasks[t].st = "threw" /\ tasks[u].st = "returned"

\* ----------------------------------------------------------------- C6
\* C6: a PARALLEL run starts exactly one executor call per plan step, in plan
\* order, and while any of them has not completed it has merged nothing and
\* has not called the Synthesizer.
C6_ParallelBarrier ==
    (plan.mode = PARALLEL /\ given = NoState /\ pc # "dispatch") =>
        /\ Len(tasks) = N
        /\ Cardinality(CallsTo("executeAgent")) = N
        /\ \A k \in 1..N :
               /\ tasks[k].step = k - 1
               /\ tasks[k].agent = plan.steps[k].agent
               /\ tasks[k].instruction = plan.steps[k].instruction
               /\ Cardinality({m \in CallsTo("executeAgent") : trace[m].step = k - 1}) = 1
        /\ ~AllReturned =>
               /\ pc \in {"par_wait", "failed"}
               /\ agentOutputs = <<>>
               /\ toolUsageLog = <<>>
               /\ CallsTo("synthesize") = {}
        /\ pc \in {"synth_entry", "synth", "eval", "done"} => AllReturned

\* the Synthesizer is called after two executors that each took a tool turn
C6_Witness ==
    /\ plan.mode = PARALLEL /\ given = NoState
    /\ pc = "synth"
    /\ N = 2
    /\ \A t \in 1..Len(tasks) : tasks[t].fnSent > 0

\* ----------------------------------------------------------------- C7
RECURSIVE UsageInPlanOrder(_)
\* the tool usage of the first k tasks, task 1 first
UsageInPlanOrder(k) ==
    IF k = 0 THEN <<>> ELSE UsageInPlanOrder(k - 1) \o tasks[k].toolUsage

\* C7: once a PARALLEL run has merged its results, agentOutputs has a key for
\* exactly the agents of the plan, each holding the text returned for the last
\* plan step that addresses the agent, and the tool usage log is the tasks'
\* tool usage in plan order: both are determined by the plan and the returned
\* results, whatever the order in which the executors completed.
C7_ParallelMergeDeterministic ==
    (plan.mode = PARALLEL /\ given = NoState
     /\ (pc \in {"synth_entry", "synth", "eval", "done"} \/ CallsTo("synthesize") # {})) =>
        /\ \A a \in AgentDomain :
               HasKey(agentOutputs, a) <=> \E k \in 1..N : plan.steps[k].agent = a
        /\ \A k \in 1..N :
               (\A m \in (k + 1)..N : plan.steps[m].agent # plan.steps[k].agent) =>
                   Get(agentOutputs, plan.steps[k].agent) = tasks[k].text
        /\ Len(agentOutputs) = Cardinality({plan.steps[k].agent : k \in 1..N})
        /\ toolUsageLog = UsageInPlanOrder(N)

\* two steps on the same agent returned different texts and different tools
C7_Witness ==
    /\ plan.mode = PARALLEL /\ given = NoState
    /\ pc = "synth"
    /\ N = 2
    /\ plan.steps[1].agent = plan.steps[2].agent
    /\ tasks[1].text # tasks[2].text
    /\ tasks[1].toolUsage # <<>> /\ tasks[2].toolUsage # <<>>
    /\ tasks[1].toolUsage # tasks[2].toolUsage

\* ----------------------------------------------------------------- C8
\* C8: when the planning call has failed, by an error of the call or by an
\* answer that does not parse, the run goes on with the plan
\* { DIRECT, [{ ORCHESTRATOR, prompt }], "Fallback." }: it dispatches one executor
\* call for ORCHESTRATOR with the user's prompt, and it fails only if that call
\* or the synthesis fails.
C8_PlannerFallback ==
    Threw("plan") =>
        /\ plan = [mode |-> "DIRECT",
                   steps |-> <<[agent |-> "ORCHESTRATOR", instruction |-> Prompt]>>,
                   reasoning |-> <<"Fallback.">>]
        /\ pc # "dispatch" =>
               /\ Len(tasks) = 1
               /\ tasks[1].agent = "ORCHESTRATOR"
               /\ tasks[1].instruction = Prompt
               /\ Cardinality(CallsTo("executeAgent")) = 1
        /\ pc = "failed" => (tasks[1].st = "threw" \/ Threw("synthesize"))

\* a run whose planning answer did not parse has completed
C8_Witness ==
    /\ \E k \in 1..Len(trace) :
           trace[k].k = "throw" /\ trace[k].what = "plan" /\ trace[k].arg = <<"parse">>
    /\ pc = "done"
    /\ result.executionMode = DIRECT

\* ----------------------------------------------------------------- C9
\* the positions of the trace at which the synthesis call returned its answer
SynthesisReturned ==
    {k \in 1..Len(trace) : trace[k].k = "return" /\ trace[k].what = "synthesize"}

\* C9: a run calls the Synthesizer and the Evaluator at most once each; it calls
\* neither before its execution phase has completed nor when that phase paused
\* or failed; past that phase it has called the Synthesizer exactly once, and
\* once the synthesis has returned it has called the Evaluator exactly once,
\* after that return; a completed run has made exactly one call of each, the
\* Synthesizer's first. This holds in every mode and in resumed runs.
C9_SynthesisThenEvaluation ==
    /\ Cardinality(CallsTo("synthesize")) <= 1
    /\ Cardinality(CallsTo("score")) <= 1
    /\ pc \notin {"synth", "eval", "done", "failed"} =>
           CallsTo("synthesize") = {} /\ CallsTo("score") = {}
    /\ pc \in {"synth", "eval", "done"} => Cardinality(CallsTo("synthesize")) = 1
    /\ pc = "synth" => CallsTo("score") = {}
    /\ pc \in {"eval", "done"} => Cardinality(CallsTo("score")) = 1
    /\ \A e \in CallsTo("score") :
           \E c \in CallsTo("synthesize"), r \in SynthesisReturned : c < r /\ r < e
    /\ pc = "done" => result.kind = "done" /\ result.response = parsed

\* a resumed SEQUENTIAL run that ran a step and completed
C9_Witness ==
    /\ pc = "done"
    /\ given # NoState /\ plan.mode = SEQUENTIAL
    /\ CallsTo("executeAgent") # {}
    /\ Cardinality(CallsTo("synthesize")) = 1
    /\ Cardinality(CallsTo("score")) = 1

\* ---------------------------------------------------------------- C10
\* C10: when the synthesis call has failed or its answer did not parse, the run
\* has failed: it has no result, has not called the Evaluator and has recorded
\* no TotalLatency metric.
C10_SynthesisFailureNotRecovered ==
    Threw("synthesize") =>
        /\ pc = "failed"
        /\ result = NoResult
        /\ CallsTo("score") = {}
        /\ \A k \in 1..Len(metrics) : metrics[k].name # "TotalLatency"

\* the synthesis failed after an executor had returned its output
C10_Witness ==
    /\ Threw("synthesize")
    /\ pc = "failed"
    /\ agentOutputs # <<>>
    /\ \E k \in 1..Len(metrics) : metrics[k].name = "AgentExecutionTime"

\* ---------------------------------------------------------------- C11
\* C11: when the scoring call of the Evaluator has failed, the run has not
\* failed: it has returned the synthesized response together with the evaluation
\* { score: 8, feedback: "Evaluation service unavailable.", latencyMs: 0,
\* tokenCost: 0 }.
C11_EvaluatorFailureDefaults ==
    Threw("score") =>
        /\ pc = "done"
        /\ result.kind = "done"
        /\ result.evaluation = [score |-> 8,
                                feedback |-> <<"Evaluation service unavailable.">>,
                                latencyMs |-> 0, tokenCost |-> 0]
        /\ \E r \in SynthesisReturned : result.response = trace[r].arg
        /\ result.response # <<>>

\* a run of a planned mode whose scoring call failed
C11_Witness ==
    /\ Threw("score")
    /\ pc = "done"
    /\ result.executionMode = SEQUENTIAL
    /\ result.response = <<"final", " answer">>

\* ---------------------------------------------------------------- C12
\* C12: a run that is given no API key, fresh or resumed, never does anything
\* but fail: it emits no log line, calls no collaborator, starts no executor,
\* records no metric, leaves the memory bank as it was and returns no result.
C12_NoKeyNoWork ==
    ~apiKey =>
        /\ pc \in {"start", "failed"}
        /\ trace = <<>>
        /\ tasks = <<>>
        /\ metrics = <<>>
        /\ memory = DEFAULT_CONTEXT
        /\ result = NoResult
        /\ FreshLocals

\* a resumed run with a long history has failed for want of a key
C12_Witness ==
    /\ ~apiKey
    /\ pc = "failed"
    /\ given # NoState
    /\ Len(history) > 6

\* ---------------------------------------------------------------- C13
\* the "ROLE: text" lines of the first n prior turns, joined by line breaks
VerbatimLines(n) ==
    [j \in 1..(4 * n - 1) |->
        IF j % 4 = 1 THEN (IF ((j + 3) \div 4) % 2 = 1 THEN "USER" ELSE "MODEL")
        ELSE IF j % 4 = 2 THEN ": "
        ELSE IF j % 4 = 3 THEN history[(j + 1) \div 4].text[1]
        ELSE "\n"]

\* the positions of the trace at which the summarization call returned
SummaryReturned ==
    {k \in 1..Len(trace) : trace[k].k = "return" /\ trace[k].what = "summarize"}

\* the run is past its compaction phase
PastCompaction == pc \notin {"start", "compacting", "failed"}

\* C13: what the compaction phase does is determined by whether the run is
\* resumed and by the number of prior turns. A resumed run makes no
\* summarization call and has an empty context; a fresh run with no turn
\* likewise; a fresh run with 1 to 6 turns makes no summarization call and its
\* context is the "ROLE: text" lines; a fresh run with more than 6 turns makes
\* exactly one summarization call, and the text returned is its context. The
\* planning call is handed that context.
C13_CompactionPath ==
    LET n    == Len(history)
        sums == CallsTo("summarize")
    IN  /\ given # NoState =>
               /\ sums = {}
               /\ contextSummary = <<>>
        /\ (given = NoState /\ n = 0) =>
               /\ sums = {}
               /\ contextSummary = <<>>
        /\ (given = NoState /\ n \in 1..6) =>
               /\ sums = {}
               /\ PastCompaction => contextSummary = VerbatimLines(n)
        /\ (given = NoState /\ n > 6) =>
               /\ Cardinality(sums) <= 1
               /\ (apiKey /\ pc # "start") => Cardinality(sums) = 1
               /\ \A k \in sums : trace[k].arg = VerbatimLines(n)
               /\ PastCompaction =>
                      \E c \in sums, r \in SummaryReturned :
                          c < r /\ contextSummary = trace[r].arg
        /\ \A k \in CallsTo("plan") :
               SubSeq(trace[k].ctx, 1, Len(contextSummary)) = contextSummary

\* a fresh run with exactly 6 prior turns has reached its planning call
C13_Witness ==
    /\ given = NoState
    /\ Len(history) = 6
    /\ pc = "planning"
    /\ contextSummary # <<>>

\* ---------------------------------------------------------------- C14
\* C14: when the summarization call of a fresh run with more than 6 prior turns
\* has failed, the run has not failed: it goes on to planning with a default
\* context.
C14_CompactionDegradesGracefully ==
    Threw("summarize") =>
        /\ pc # "failed"
        /\ PastCompaction => contextSummary = <<>>

\* ---------------------------------------------------------------- C15
\* whether the call the executor loop inspected last names none of its tools
UnknownTool(tk) ==
    tk.call.name \notin {"", "pauseWorkflow", "fetchMedicalRecords", "updateMemory"}

\* C15: once the executor loop has inspected a call that names a tool other
\* than pauseWorkflow, fetchMedicalRecords and updateMemory, the executor has
\* returned without failing and without sending a function response for that
\* call: its result is not paused and carries the text of the response received
\* last, or "Task Completed." when that text is empty.
C15_UnknownToolBreaks ==
    \A t \in 1..Len(tasks) :
        LET tk == tasks[t]
            n  == Len(tk.events)
        IN  UnknownTool(tk) =>
                /\ tk.st = "returned"
                /\ ~tk.isPaused /\ tk.pauseReason = <<>>
                /\ tk.text = IF tk.heard = <<>> THEN <<"Task Completed.">> ELSE tk.heard
                /\ tk.events[n].k = "return" /\ tk.events[n].what = "completed"
                /\ tk.events[n].arg = tk.text
                /\ tk.events[n - 1].k = "log" /\ tk.events[n - 1].what = "TOOL"
                /\ tk.events[n - 1].arg = <<tk.call.name>>
                /\ Cardinality(Did(tk, "call", "sendFunctionResponse")) = tk.turns
                /\ Did(tk, "throw", "sendMessage") = {}
                /\ tk.toolUsage[Len(tk.toolUsage)] = tk.call.name

\* after a resolved turn, a response without text carried an unknown tool
C15_Witness ==
    \E t \in 1..Len(tasks) :
        /\ UnknownTool(tasks[t])
        /\ tasks[t].turns >= 1
        /\ tasks[t].heard = <<>>
        /\ tasks[t].st = "returned"

\* ---------------------------------------------------------------- C16
\* the list of the memory bank a category of updateMemory is filed under, if any
ListOf(category) ==
    IF category = "health" THEN "healthConditions"
    ELSE IF category = "education" THEN "learningGoals"
    ELSE IF category = "environment" THEN "ecoPreferences"
    ELSE IF category = "profile" THEN "none"
    ELSE "notes"

\* in this step task t's loop inspects an updateMemory call
InspectsUpdate(t) ==
    /\ t \in 1..Len(tasks) /\ t \in 1..Len(tasks')
    /\ tasks[t].st = "sent"
    /\ Len(tasks'[t].toolUsage) > Len(tasks[t].toolUsage)
    /\ tasks'[t].toolUsage[Len(tasks'[t].toolUsage)] = "updateMemory"

\* C16: a step in which the executor loop inspects updateMemory(category, item)
\* adds item to the end of healthConditions for "health", of learningGoals for
\* "education", of ecoPreferences for "environment", and of notes for every
\* category but these and "profile", unless the list holds item already; for
\* "profile" it sets the name to item; it changes nothing else of the memory
\* bank; and it sends a function response for the call and waits for the next
\* response of the session.
C16_UpdateMemoryDispatch ==
    [][\A t \in 1..MaxSteps + 1 :
          InspectsUpdate(t) =>
              LET category == tasks'[t].call.a1
                  item     == tasks'[t].call.a2
                  n        == Len(tasks'[t].events)
              IN  /\ tasks'[t].call.name = "updateMemory"
                  /\ \A key \in {"healthConditions", "learningGoals", "ecoPreferences",
                                "notes"} :
                         memory'[key] =
                             IF key = ListOf(category)
                                /\ \A k \in 1..Len(memory[key]) : memory[key][k] # item
                             THEN memory[key] \o <<item>>
                             ELSE memory[key]
                  /\ memory'.name = IF category = "profile" THEN item ELSE memory.name
                  /\ memory'.location = memory.location
                  /\ tasks'[t].st = "sent"
                  /\ tasks'[t].fnSent = tasks[t].fnSent + 1
                  /\ tasks'[t].events[n].k = "call"
                  /\ tasks'[t].events[n].what = "sendFunctionResponse"
                  /\ tasks'[t].events[n].arg = <<"updateMemory">>
      ]_vars

\* the same health item was filed twice and a second one after it, the name was
\* replaced and a note filed under a category of no list
C16_Witness ==
    /\ memory.healthConditions = <<"x", "y">>
    /\ memory.name = "x"
    /\ memory.notes = <<"x">>
    /\ \E t \in 1..Len(tasks) :
           /\ tasks[t].toolUsage = <<"updateMemory", "updateMemory", "updateMemory",
                                     "updateMemory", "updateMemory">>
           /\ tasks[t].call = Call("updateMemory", "misc", "x")
           /\ tasks[t].st = "sent"

\* ---------------------------------------------------------------- C17
\* no text is twice in the list
NoDuplicate(list) ==
    \A a, b \in 1..Len(list) : a # b => list[a] # list[b]

\* the number of entries of the list that are the text
Count(list, x) == Cardinality({k \in 1..Len(list) : list[k] = x})

\* C17: in every state the memory bank reaches by addNote and addArrayItem calls
\* from the default context, no list holds a text twice, and a second call of
\* addNote or addArrayItem with the same text leaves the state the first call
\* produced, which holds the text once.
C17_SetSemantics ==
    /\ \A key \in MemoryKeys \cup {"notes"} : NoDuplicate(memory[key])
    /\ \A x \in MemoryItems :
           /\ addNote(addNote(memory, x), x) = addNote(memory, x)
           /\ Count(addNote(memory, x).notes, x) = 1
           /\ \A key \in MemoryKeys :
                  /\ addArrayItem(addArrayItem(memory, key, x), key, x)
                         = addArrayItem(memory, key, x)
                  /\ Count(addArrayItem(memory, key, x)[key], x) = 1

\* every text is filed in the notes and in a list, so that every further call
\* repeats a text
C17_Witness ==
    /\ Len(memory.notes) = 3
    /\ Len(memory.learningGoals) = 3
    /\ memory.notes # memory.learningGoals

\* ---------------------------------------------------------------- C18
\* C18: for every n >= 0 and every log of length L, getRecentMetrics(n) answers
\* with the last min(n, L) recorded metrics in the order they were recorded, and
\* with the empty list while the log is empty after clear().
C18_RecentReturnsLast ==
    count >= 0 =>
        LET L == Len(metrics)
            m == IF count < L THEN count ELSE L
        IN  /\ recent = [k \in 1..m |-> metrics[L - m + k]]
            /\ metrics = <<>> => recent = <<>>

\* ---------------------------------------------------------------- C19
\* the position in the trace of the n-th executor call of the run
NthCall(n) ==
    CHOOSE k \in CallsTo("executeAgent") :
        Cardinality({m \in CallsTo("executeAgent") : m < k}) = n - 1

\* C19: a LOOP run on a fresh plan makes at most three executor calls, and
\* exactly three once its execution phase has completed: the first to
\* steps[0].agent with the plan's instruction, the second to ORCHESTRATOR with the
\* draft in its instruction and no context, the third to steps[0].agent with the
\* critique in its instruction and the draft as context. Afterwards agentOutputs
\* holds the refined text for steps[0].agent and nothing else, and no call was
\* made for another step of the plan.
C19_LoopThreeCalls ==
    (plan.mode = LOOP /\ given = NoState) =>
        LET calls == Cardinality(CallsTo("executeAgent"))
        IN  /\ calls <= 3
            /\ calls >= 1 =>
                   /\ trace[NthCall(1)].who = plan.steps[1].agent
                   /\ trace[NthCall(1)].arg = plan.steps[1].instruction
                   /\ trace[NthCall(1)].ctx = accumulatedContext
            /\ calls >= 2 =>
                   /\ trace[NthCall(2)].who = "ORCHESTRATOR"
                   /\ trace[NthCall(2)].arg = <<"Critique: ">> \o currentDraft
                   /\ trace[NthCall(2)].ctx = <<>>
            /\ calls >= 3 =>
                   /\ trace[NthCall(3)].who = plan.steps[1].agent
                   /\ trace[NthCall(3)].arg = <<"Refine based on: ">> \o critic
                   /\ trace[NthCall(3)].ctx = <<"Draft: ">> \o currentDraft
            /\ pc \in {"loop_critic", "loop_refine"} => currentDraft # <<>>
            /\ pc = "loop_refine" => critic # <<>>
            /\ pc \in {"synth_entry", "synth", "eval", "done"} =>
                   /\ calls = 3
                   /\ tasks[1].instruction = <<"Refine based on: ">> \o critic
                   /\ agentOutputs = <<[agent |-> plan.steps[1].agent,
                                        text |-> tasks[1].text]>>

\* a LOOP run over a plan of two steps has refined a draft that differs from
\* its critique and reached the Synthesizer
C19_Witness ==
    /\ plan.mode = LOOP /\ given = NoState
    /\ N = 2
    /\ pc = "synth"
    /\ currentDraft # critic
    /\ tasks[1].text # critic

\* ---------------------------------------------------------------- C20
\* C20: a run resumed from a PausedState whose plan is PARALLEL, LOOP or DIRECT
\* calls no executor and no Planner, and the Synthesizer is called with the
\* checkpoint's agentOutputs and plan, and an empty tool usage log.
C20_ResumeNonSequentialNoOp ==
    (given # NoState /\ given.plan.mode \in {"PARALLEL", "LOOP", "DIRECT"}) =>
        /\ CallsTo("executeAgent") = {}
        /\ CallsTo("plan") = {}
        /\ tasks = <<>>
        /\ pc \in {"start", "phase1", "dispatch", "synth_entry", "synth", "eval", "done",
                   "failed"}
        /\ pc \in {"synth_entry", "synth", "eval", "done"} =>
               /\ plan = given.plan
               /\ agentOutputs = given.agentOutputs
               /\ toolUsageLog = <<>>
        /\ pc = "failed" => (~apiKey \/ Threw("synthesize"))

\* a resumed PARALLEL checkpoint of two steps with a stored output has reached
\* the Synthesizer
C20_Witness ==
    /\ given # NoState
    /\ given.plan.mode = PARALLEL
    /\ Len(given.plan.steps) = 2
    /\ given.stepIndex = 0
    /\ given.agentOutputs # <<>>
    /\ pc = "synth"

\* ---------------------------------------------------------------- C21
\* the executor calls the controller is waiting for that have returned paused
PausedTasks == {t \in 1..Len(tasks) : tasks[t].st = "returned" /\ tasks[t].isPaused}

\* the text the claim gives for an executor that signalled a pause
ClaimedPauseText(tk) == <<"Workflow Paused: ", tk.call.a1>>

\* C21: only a run whose plan is SEQUENTIAL returns executionMode PAUSED with a
\* PausedState. In a PARALLEL, LOOP or DIRECT run, a step of the controller
\* taken while an executor it awaited has returned paused produces no
\* PausedState, and unless a sibling failed it takes the text
\* "Workflow Paused: <reason>" as that call's output: merged into agentOutputs
\* for the agent (PARALLEL: when no later step addresses the same agent; DIRECT and the
\* refine call of LOOP), used as the draft, or used as the critique; from there
\* the next step of the run is the synthesis call.
C21_OnlySequentialSuspends ==
    [][/\ (result'.executionMode = "PAUSED" /\ result'.pausedState # NoState) =>
              plan'.mode = "SEQUENTIAL"
       /\ pc' = "paused" => plan'.mode = "SEQUENTIAL"
       /\ (plan.mode \in {"PARALLEL", "LOOP", "DIRECT"} /\ pc' # pc /\ PausedTasks # {}) =>
              /\ pc' # "paused"
              /\ result'.pausedState = NoState
              /\ result'.executionMode # "PAUSED"
              /\ pc = "par_wait" =>
                     \/ pc' = "failed" /\ SomeThrew
                     \/ /\ pc' = "synth_entry"
                        /\ \A t \in PausedTasks :
                               (\A u \in (t + 1)..Len(tasks) : tasks[u].agent # tasks[t].agent)
                                   => Get(agentOutputs', plan.steps[t].agent)
                                          = ClaimedPauseText(tasks[t])
              /\ pc = "direct_wait" =>
                     /\ pc' = "synth_entry"
                     /\ agentOutputs' = <<[agent |-> plan.steps[1].agent,
                                           text |-> ClaimedPauseText(tasks[1])]>>
              /\ pc = "loop_draft" =>
                     /\ pc' = "loop_critic"
                     /\ currentDraft' = ClaimedPauseText(tasks[1])
                     /\ tasks'[1].instruction = <<"Critique: ">> \o ClaimedPauseText(tasks[1])
              /\ pc = "loop_critic" =>
                     /\ pc' = "loop_refine"
                     /\ critic' = ClaimedPauseText(tasks[1])
              /\ pc = "loop_refine" =>
                     /\ pc' = "synth_entry"
                     /\ agentOutputs' = <<[agent |-> plan.steps[1].agent,
                                           text |-> ClaimedPauseText(tasks[1])]>>
              /\ pc = "synth_entry" =>
                     /\ pc' = "synth"
                     /\ Cardinality(CallsTo("synthesize")') = 1
      ]_vars

\* a PARALLEL run of two steps, one of which signalled a pause, has called the
\* Synthesizer
C21_Witness ==
    /\ plan.mode = PARALLEL /\ given = NoState
    /\ N = 2
    /\ pc = "synth"
    /\ Cardinality(PausedTasks) = 1
    /\ result = NoResult

\* ---------------------------------------------------------------- C22
\* C22: every PausedState a run produces, fresh or resumed from a PausedState
\* within the same bound, has 0 <= stepIndex <= len(plan.steps), for the plan it
\* holds, which is the plan of the run.
C22_StepIndexInRange ==
    (given = NoState \/ (0 <= given.stepIndex /\ given.stepIndex <= Len(given.plan.steps))) =>
        (result.pausedState # NoState =>
            /\ 0 <= result.pausedState.stepIndex
            /\ result.pausedState.stepIndex <= Len(result.pausedState.plan.steps)
            /\ result.pausedState.plan = plan
            /\ result.pausedState.stepIndex > startStepIndex)

\* the second run of a chain, resumed at the last of two steps, has paused there
C22_Witness ==
    /\ runs = 2
    /\ given.stepIndex = 1
    /\ result.pausedState # NoState
    /\ result.pausedState.stepIndex = 2
    /\ Len(result.pausedState.plan.steps) = 2

\* ---------------------------------------------------------------- C23
\* whether the log ends with the given tool identifiers, in their order
EndsWith(log, usage) ==
    /\ Len(usage) <= Len(log)
    /\ SubSeq(log, Len(log) - Len(usage) + 1, Len(log)) = usage

\* C23: when the Synthesizer is called, in every mode, the tool usage log it is
\* handed holds in order the tool identifiers recorded by the executor calls of
\* the run; in particular it ends with those of the executor calls that
\* returned last (every call of a PARALLEL run, the last call otherwise).
C23_ToolUsageLogComplete ==
    \A k \in CallsTo("synthesize") :
        /\ trace[k].arg = toolUsageLog
        /\ EndsWith(toolUsageLog, UsageInPlanOrder(Len(tasks)))

\* ---------------------------------------------------------------- C24
\* the external calls of the run that have been issued and have not returned:
\* the messages and record fetches of its executors, and the controller's own
\* call to the summarizer, the Planner, the Synthesizer or the Evaluator
InFlight ==
    Cardinality({t \in 1..Len(tasks) : tasks[t].st \in {"sent", "fetching"}})
    + (IF pc \in {"compacting", "planning", "synth", "eval"} THEN 1 ELSE 0)

\* C24: outside a PARALLEL run on a fresh plan at most one external call is in
\* flight: the controller awaits at most one executor, that executor awaits at
\* most one message or record fetch, and the controller makes a call of its
\* own only while no executor's call is outstanding.
C24_NoOverlapOutsideParallel ==
    ~(plan.mode = "PARALLEL" /\ given = NoState) =>
        /\ InFlight <= 1
        /\ Len(tasks) <= 1
        /\ pc \in {"seq_wait", "loop_draft", "loop_critic", "loop_refine", "direct_wait"} =>
               Len(tasks) = 1
        /\ pc \in {"compacting", "planning", "synth", "eval"} =>
               \A t \in 1..Len(tasks) : tasks[t].st \in {"returned", "threw"}

\* the second step of a SEQUENTIAL run waits for its record fetch after the
\* first step has returned
C24_Witness ==
    /\ plan.mode = SEQUENTIAL
    /\ i = 1
    /\ pc = "seq_wait"
    /\ tasks[1].st = "fetching"
    /\ InFlight = 1
    /\ agentOutputs # <<>>

\* ---------------------------------------------------------------- C25
\* the executors whose record fetch is in flight
Fetching == {t \in 1..Len(tasks) : tasks[t].st = "fetching"}

\* C25: in a PARALLEL run the tool calls of sibling executors do not overlap:
\* while the record fetch of one is in flight, no sibling has a record fetch in
\* flight.
C25_SiblingToolCallsSerialized ==
    (plan.mode = "PARALLEL" /\ given = NoState) => Cardinality(Fetching) <= 1

\* ---------------------------------------------------------------- C26
\* C26: in a PARALLEL run no memory update of a sibling executor is lost,
\* under every interleaving: a step in which an executor files an item in a list
\* through updateMemory leaves the list holding that item exactly once, and every
\* step of the run leaves each of healthConditions, learningGoals,
\* ecoPreferences and notes holding exactly once every item it held before; so
\* after the join each list holds exactly once every item filed during the run.
C26_NoLostUpdate ==
    [][(plan.mode = "PARALLEL" /\ given = NoState) =>
          \A key \in {"healthConditions", "learningGoals", "ecoPreferences", "notes"} :
              /\ \A k \in 1..Len(memory[key]) : Count(memory'[key], memory[key][k]) = 1
              /\ \A t \in 1..Len(tasks) :
                     (InspectsUpdate(t) /\ ListOf(tasks'[t].call.a1) = key) =>
                         Count(memory'[key], tasks'[t].call.a2) = 1
      ]_vars

\* after the join: one sibling filed an item, the other a second item in the
\* same list and then the first item again
C26_Witness ==
    /\ plan.mode = PARALLEL /\ given = NoState
    /\ pc = "synth_entry"
    /\ memory.healthConditions = <<"x", "y">>
    /\ tasks[1].call = Call("updateMemory", "health", "x")
    /\ tasks[2].call = Call("updateMemory", "health", "x")
    /\ Cardinality(Did(tasks[1], "effect", "updateMemory")) = 1
    /\ Cardinality(Did(tasks[2], "effect", "updateMemory")) = 2

\* ---------------------------------------------------------------- C27
\* what the executor of plan step t (1-based) did, as the record of all
\* executors of the run holds it
Mine(t) == SelectSeq(execLog, LAMBDA e : e.step = t - 1)

\* the tool whose effect the entry is, "" when the entry is no effect of a tool
EffectOf(e) ==
    IF e.k = "call" /\ e.what = "fetch" THEN "fetchMedicalRecords"
    ELSE IF e.k = "effect" /\ e.what = "updateMemory" THEN "updateMemory"
    ELSE IF e.k = "return" /\ e.what = "paused" THEN "pauseWorkflow"
    ELSE ""

\* C27: in the ordered record of a PARALLEL run, whatever the interleaving of
\* the sibling executors: what each executor did appears in the order in which
\* it did it; its broadcast line comes before its first message; and each
\* effect of a tool (record fetch, memory update, paused return) comes
\* directly after the line that names the executor's agent and the tool, with
\* nothing of the same executor in between.
C27_CausalLogOrder ==
    (plan.mode = "PARALLEL" /\ given = NoState) =>
        \A t \in 1..Len(tasks) :
            LET mine == Mine(t)
            IN  /\ mine = tasks[t].events
                /\ Len(mine) >= 3
                /\ mine[1].k = "log" /\ mine[1].what = "BROADCAST"
                /\ mine[1].who = plan.steps[t].agent
                /\ \A k \in 1..Len(mine) :
                       (mine[k].k = "call"
                        /\ mine[k].what \in {"sendMessage", "sendFunctionResponse"}) => k > 1
                /\ \A k \in 1..Len(mine) :
                       EffectOf(mine[k]) # "" =>
                           /\ k > 1
                           /\ mine[k - 1].k = "log" /\ mine[k - 1].what = "TOOL"
                           /\ mine[k - 1].who = plan.steps[t].agent
                           /\ mine[k - 1].arg = <<EffectOf(mine[k])>>

\* after the join: while the first executor's record fetch was in flight the
\* second logged and carried out a memory update, and later returned paused
C27_Witness ==
    /\ plan.mode = PARALLEL /\ given = NoState
    /\ pc = "synth_entry"
    /\ tasks[2].isPaused
    /\ \E a, b, c \in 1..Len(execLog) :
           /\ a < b /\ b < c
           /\ execLog[a].step = 0 /\ EffectOf(execLog[a]) = "fetchMedicalRecords"
           /\ execLog[b].step = 1 /\ EffectOf(execLog[b]) = "updateMemory"
           /\ execLog[c].step = 0 /\ execLog[c].what = "sendFunctionResponse"

\* ---------------------------------------------------------------- C28
\* whether the sequence begins with the given one
StartsWith(seq, head) == Len(head) <= Len(seq) /\ SubSeq(seq, 1, Len(head)) = head

\* what the context of a call holds after the context of the call before it
After(seq, head) == SubSeq(seq, Len(head) + 1, Len(seq))

\* whether the context holds no annotation of a step's output
NoOutputIn(ctx) == \A k \in 1..Len(ctx) : ctx[k] # "\n[Output from "

\* C28: a SEQUENTIAL run calls its executors strictly in plan order from its
\* starting index (0, or the checkpoint's stepIndex), each for the agent and
\* the instruction of its step; the first call is handed the starting context
\* (the fresh planning context, or the checkpoint's accumulatedContext), and
\* each later call the context of the call before it followed by
\* "[Output from <agent>]: " and the output that earlier step returned, which
\* was not paused.
C28_SequentialOrderAndContext ==
    (plan.mode = "SEQUENTIAL" /\ pc \notin {"dispatch"}) =>
        LET calls == Cardinality(CallsTo("executeAgent"))
            first == IF given = NoState THEN 0 ELSE given.stepIndex
        IN  \A n \in 1..calls :
                LET c == trace[NthCall(n)]
                IN  /\ c.step = first + n - 1
                    /\ c.step < Len(plan.steps)
                    /\ c.who = plan.steps[c.step + 1].agent
                    /\ c.arg = plan.steps[c.step + 1].instruction
                    /\ n = 1 =>
                           IF given = NoState
                           THEN StartsWith(c.ctx, <<"User Query: ">> \o Prompt)
                                /\ NoOutputIn(c.ctx)
                           ELSE c.ctx = given.accumulatedContext
                    /\ n > 1 =>
                           LET b    == trace[NthCall(n - 1)]
                               mark == b.ctx \o <<"\n[Output from ", b.who, "]: ">>
                           IN  /\ StartsWith(c.ctx, mark)
                               /\ After(c.ctx, mark) # <<>>
                               /\ NoOutputIn(After(c.ctx, mark))
                               /\ (n = calls /\ pc = "seq_wait") =>
                                      After(c.ctx, mark) = Get(agentOutputs, b.who)
                    /\ (n = calls /\ pc = "seq_wait") =>
                           /\ tasks[1].context = c.ctx
                           /\ tasks[1].step = c.step
                           /\ c.ctx = accumulatedContext

\* a run resumed at the first of two steps waits for the executor of the second
C28_Witness ==
    /\ plan.mode = SEQUENTIAL
    /\ given # NoState /\ given.stepIndex = 0
    /\ Cardinality(CallsTo("executeAgent")) = 2
    /\ pc = "seq_wait"
    /\ tasks[1].step = 1

\* ---------------------------------------------------------------- C29
\* C29: whatever the planning call of a fresh run answers, the plan the mode
\* dispatch acts on has at least one step, so that steps[0] exists when a
\* DIRECT or LOOP plan is executed.
C29_PlanNeverEmpty ==
    (given = NoState /\ pc = "dispatch") => Len(plan.steps) >= 1

\* ---------------------------------------------------------------- C30
\* the executor has returned on its first response, for which it logged no
\* tool: the response carried no function call and no built-in tool signal
PlainFirstResponse(tk) ==
    /\ tk.st = "returned"
    /\ tk.pending = "first"
    /\ Did(tk, "log", "TOOL") = {}

\* C30: an executor whose first response carried no function call and no
\* built-in tool signal has sent no message but its first, and has returned
\* the text of that response, or "Task Completed." when it is empty, with an
\* empty tool usage list and not paused; and a DIRECT run makes exactly one
\* executor call, for the agent and the instruction of steps[0].
C30_PlainResponseDirect ==
    /\ \A t \in 1..Len(tasks) :
           LET tk == tasks[t]
           IN  PlainFirstResponse(tk) =>
                   /\ Cardinality(Did(tk, "call", "sendMessage")) = 1
                   /\ Did(tk, "call", "sendFunctionResponse") = {}
                   /\ Did(tk, "call", "fetch") = {}
                   /\ tk.text = IF tk.heard = <<>> THEN <<"Task Completed.">> ELSE tk.heard
                   /\ tk.toolUsage = <<>>
                   /\ ~tk.isPaused /\ tk.pauseReason = <<>>
                   /\ tk.events[Len(tk.events)].k = "return"
                   /\ tk.events[Len(tk.events)].arg = tk.text
    /\ (plan.mode = "DIRECT" /\ given = NoState /\ pc \notin {"dispatch", "failed"}) =>
           /\ Cardinality(CallsTo("executeAgent")) = 1
           /\ Len(tasks) = 1
           /\ \A k \in CallsTo("executeAgent") :
                  /\ trace[k].step = 0
                  /\ trace[k].who = plan.steps[1].agent
                  /\ trace[k].arg = plan.steps[1].instruction
    /\ (plan.mode = "DIRECT" /\ given = NoState) =>
           Cardinality(CallsTo("executeAgent")) <= 1

\* a DIRECT run over a plan of two steps has recorded the output of its one
\* executor, whose first response had no text, no call and no tool signal
C30_Witness ==
    /\ plan.mode = DIRECT /\ given = NoState
    /\ N = 2
    /\ pc = "synth_entry"
    /\ PlainFirstResponse(tasks[1])
    /\ tasks[1].heard = <<>>
    /\ agentOutputs = <<[agent |-> HEALTH, text |-> <<"Task Completed.">>]>>

\* ---------------------------------------------------------------- C31
\* the invocation has ended: it returned a result, returned paused, or failed
Ended == pc \in {"done", "paused", "failed"}

\* C31: when every external call eventually returns or fails, every
\* invocation eventually ends, for every plan, mode and sequence of answers,
\* and it ends in exactly one way: done with a result that carries an
\* evaluation and no PausedState, paused with a result that carries a
\* PausedState and no evaluation, or failed with no result.
C31_RunTerminates ==
    /\ <>Ended
    /\ [](/\ pc = "done" =>
                 /\ result.kind = "done"
                 /\ result.evaluation # NoEvaluation
                 /\ result.pausedState = NoState
          /\ pc = "paused" =>
                 /\ result.kind = "paused"
                 /\ result.pausedState # NoState
                 /\ result.evaluation = NoEvaluation
          /\ pc = "failed" => result = NoResult
          /\ ~Ended => result = NoResult)

\* a LOOP run has ended after one of its executors was stopped by the cap on
\* its turns, and more function calls could still have been answered
C31_Witness ==
    /\ pc = "done"
    /\ plan.mode = LOOP
    /\ \E t \in DOMAIN tasks : tasks[t].turns = MaxTurns
    /\ budget > 0

\* ---------------------------------------------------------------- C32
\* C32: every EvaluationResult the Evaluator returns has a score in 0..10, a
\* latency of at least 0 and a token cost of at least 0, whatever score the
\* scoring call answers; when the scoring call succeeded the token cost is
\* floor(length of the final response text / 4).
\* The score is parsed.score as the scoring call answered it: an answer of 11
\* is returned as the score.
C32_EvaluationInRange ==
    result.kind = "done" =>
        /\ result.evaluation.score \in 0..10
        /\ result.evaluation.latencyMs >= 0
        /\ result.evaluation.tokenCost >= 0
        /\ ~Threw("score") =>
               result.evaluation.tokenCost = StringLength(result.response) \div 4

\* ---------------------------------------------------------------- C33
\* whether no executor call of the run after the t-th addressed its agent
LastFor(t) == \A u \in (t + 1)..Len(tasks) : tasks[u].agent # tasks[t].agent

\* C33: within one run no step takes a key away from agentOutputs. Recording a
\* SEQUENTIAL step sets the text of the step's agent to the text the step
\* returned and touches no other key, so that of two steps on one agent the
\* later one's text stays; once a PARALLEL or DIRECT run has merged, the text
\* held for the agent of a step is the text returned for the last step, in plan
\* order, that addresses the agent; and from the end of the execution phase to
\* the end of the run agentOutputs is what the Synthesizer was handed.
C33_OutputsGrowLastWriteWins ==
    /\ [][runs' = runs =>
             /\ \A a \in AgentDomain :
                    HasKey(agentOutputs, a) => HasKey(agentOutputs', a)
             /\ (pc = "seq_wait" /\ pc' = "seq_loop") =>
                    /\ Get(agentOutputs', plan.steps[i + 1].agent) = tasks[1].text
                    /\ \A a \in AgentDomain \ {plan.steps[i + 1].agent} :
                           /\ HasKey(agentOutputs', a) => HasKey(agentOutputs, a)
                           /\ HasKey(agentOutputs, a) =>
                                  Get(agentOutputs', a) = Get(agentOutputs, a)
             /\ pc \in {"synth_entry", "synth", "eval"} => agentOutputs' = agentOutputs]_vars
    /\ []((plan.mode \in {PARALLEL, DIRECT} /\ given = NoState
           /\ pc \in {"synth_entry", "synth", "eval", "done"}) =>
              \A t \in 1..Len(tasks) :
                  /\ HasKey(agentOutputs, tasks[t].agent)
                  /\ LastFor(t) => Get(agentOutputs, tasks[t].agent) = tasks[t].text)

\* a SEQUENTIAL run resumed from a checkpoint that holds a text for HEALTH
\* reaches the Synthesizer after two steps on HEALTH that returned different
\* texts, the second of which agentOutputs holds
C33_Witness ==
    /\ plan.mode = SEQUENTIAL
    /\ given # NoState
    /\ HasKey(given.agentOutputs, HEALTH)
    /\ pc = "synth"
    /\ i = 2
    /\ given.stepIndex = 0
    /\ plan.steps[1].agent = HEALTH /\ plan.steps[2].agent = HEALTH
    /\ \E first \in {FinalText(t) : t \in Texts} :
           /\ first # tasks[1].text
           /\ EndsWith(accumulatedContext,
                       OutputContext(OutputContext(<<>>, HEALTH, first), HEALTH,
                                     tasks[1].text))
    /\ Get(agentOutputs, HEALTH) = tasks[1].text

\* ---------------------------------------------------------------- C34
\* C34: a resumed run leaves the PausedState it was given as it was: at every
\* point of the run, and after it, the caller's checkpoint holds the plan, the
\* stepIndex, the accumulatedContext and the agentOutputs it held at entry.
\* agentOutputs of the run is the checkpoint's own object, and recording a step
\* writes into it.
C34_CheckpointUnchanged ==
    given # NoState =>
        /\ resumeState.plan = given.plan
        /\ resumeState.stepIndex = given.stepIndex
        /\ resumeState.accumulatedContext = given.accumulatedContext
        /\ resumeState.agentOutputs = given.agentOutputs

\* ---------------------------------------------------------------- C35
\* C35: the PausedState a run with a SEQUENTIAL plan returns holds the plan of
\* the run and a stepIndex between 1 and the number of its steps, and when the
\* run was resumed from a well-formed PausedState, a stepIndex greater than
\* that one's: along a chain of resumes the stepIndex strictly increases, so a
\* plan of n steps is paused at most n times. A run resumed from a PausedState
\* whose stepIndex is the number of steps calls no executor, does not pause,
\* and goes on to the Synthesizer: it fails only if the synthesis fails.
C35_PauseChainAdvances ==
    /\ (pc = "paused" /\ (given = NoState \/ WellFormed(given))) =>
           /\ result.pausedState.plan = plan
           /\ plan.mode = SEQUENTIAL
           /\ result.pausedState.stepIndex \in 1..Len(plan.steps)
           /\ given # NoState =>
                  /\ result.pausedState.plan = given.plan
                  /\ result.pausedState.stepIndex > given.stepIndex
    /\ (apiKey /\ given # NoState /\ given.plan.mode = SEQUENTIAL
        /\ given.stepIndex = Len(given.plan.steps)) =>
           /\ tasks = <<>>
           /\ CallsTo("executeAgent") = {}
           /\ pc \in {"start", "phase1", "dispatch", "seq_loop", "synth_entry", "synth",
                      "eval", "done", "failed"}
           /\ pc = "failed" => Threw("synthesize")
           /\ pc \in {"eval", "done"} => Cardinality(CallsTo("synthesize")) = 1

\* a chain on a plan of two steps: the run resumed from the checkpoint of the
\* pause at the first step has paused at the second
C35_Witness ==
    /\ pc = "paused"
    /\ runs = 2
    /\ Len(plan.steps) = 2
    /\ given.stepIndex = 1
    /\ given.plan = plan
    /\ result.pausedState.stepIndex = 2
    /\ result.activeAgents = <<plan.steps[2].agent>>

\* a run resumed from a checkpoint of the pause at the last step has returned
\* its result without an executor call
C35_WitnessAtEnd ==
    /\ pc = "done"
    /\ given # NoState
    /\ given.plan.mode = SEQUENTIAL
    /\ given.stepIndex = Len(given.plan.steps)
    /\ given.stepIndex > 0
    /\ tasks = <<>>

\* ---------------------------------------------------------------- C36
\* C36: every clear() leaves the default state, with the name "User", the
\* location "Unknown" and four empty lists, whatever calls of addNote,
\* addArrayItem and updateContext came before it, also when the service
\* started with nothing stored.
\* The context of a service that started with nothing stored holds the arrays
\* of DEFAULT_CONTEXT themselves, so that addNote and addArrayItem push into
\* them, and clear() copies them as they then are.
C36_ClearRestoresDefault ==
    [][Clear =>
          /\ memory'.name = "User"
          /\ memory'.location = "Unknown"
          /\ \A k \in ListKeys : memory'[k] = <<>>]_vars

\* ---------------------------------------------------------------- C37
\* the calls the executor loop has handled: those it resolved or is resolving,
\* the one it paused on, and the one it did not recognise
Handled(tk) ==
    tk.fnSent
    + (IF tk.st = "fetching" THEN 1 ELSE 0)
    + (IF tk.isPaused THEN 1 ELSE 0)
    + (IF tk.st = "returned" /\ ~tk.isPaused /\ UnknownTool(tk) THEN 1 ELSE 0)

\* what the arrival of response r adds to the tool usage of the executor
UsageGained(r) ==
    SubSeq(tasks'[1].toolUsage, Len(tasks[1].toolUsage) + 1, Len(tasks'[1].toolUsage))

\* C37: the executor loop handles, of each response it enters an iteration
\* with, the first function call and no other: the arrival of a response adds
\* to toolUsage the built-in signals of the first response and then, if an
\* iteration is entered, the name of that first call alone, and the executor
\* pauses exactly when that call is pauseWorkflow. The turn count is the number
\* of function responses sent, less the one whose answer is awaited. toolUsage
\* holds one identifier per handled call after at most 2 built-in signals, and
\* at most 6 calls are handled.
C37_OneCallPerIteration ==
    /\ [][\A r \in ExecResponses :
              Respond(1, r) =>
                  LET first   == tasks[1].pending = "first"
                      entered == r.fcs # <<>> /\ tasks'[1].turns < MaxTurns
                  IN  /\ UsageGained(r) =
                             (IF first THEN BuiltinUsage(r) ELSE <<>>)
                             \o (IF entered THEN <<r.fcs[1].name>> ELSE <<>>)
                      /\ tasks'[1].isPaused <=>
                             (entered /\ r.fcs[1].name = "pauseWorkflow")
                      /\ tasks'[1].turns = tasks[1].fnSent]_vars
    /\ [](\A t \in 1..Len(tasks) :
              LET tk       == tasks[t]
                  builtins == Len(tk.toolUsage) - Handled(tk)
              IN  /\ tk.turns = tk.fnSent - (IF tk.pending = "fn" /\ tk.st \in {"sent", "threw"}
                                             THEN 1 ELSE 0)
                  /\ tk.st = "returned" => tk.turns = tk.fnSent
                  /\ builtins \in 0..2
                  /\ SubSeq(tk.toolUsage, 1, builtins) \in
                         {<<>>, <<"googleSearch">>, <<"codeExecution">>,
                          <<"googleSearch", "codeExecution">>}
                  /\ Handled(tk) <= 6
                  /\ Len(tk.toolUsage) <= 2 + 6)

\* the executor was answered first with two function calls and both built-in
\* signals, handled the first call only, and after five resolved turns returned
\* with a sixth call left unhandled
C37_Witness ==
    /\ Len(tasks) = 1
    /\ tasks[1].st = "returned"
    /\ ~tasks[1].isPaused
    /\ tasks[1].turns = MaxTurns
    /\ Len(tasks[1].toolUsage) = 2 + MaxTurns
    /\ tasks[1].toolUsage[3] = "fetchMedicalRecords"
    /\ budget = 0

\* ---------------------------------------------------------------- C38
\* the metrics a step has appended
Appended == SubSeq(metrics', Len(metrics) + 1, Len(metrics'))

\* C38: no step of a run removes a metric, and a step appends at most one:
\* AgentExecutionTime exactly when an executor call returns, paused or not;
\* PlanningLatency exactly when the planning call of a fresh run succeeds, so
\* never on a resumed run and never when the run falls back to the default
\* plan; TotalLatency exactly when the run reaches its result, so never for a
\* paused or failed run.
\* planExecution records PlanningLatency before it parses the answer: an
\* answer that does not parse records it and the run falls back.
C38_MetricsPerRun ==
    [][/\ Len(metrics') >= Len(metrics)
       /\ SubSeq(metrics', 1, Len(metrics)) = metrics
       /\ Len(Appended) <= 1
       /\ Appended = <<Metric("AgentExecutionTime")>> <=>
              \E t \in 1..Len(tasks) :
                  /\ Len(tasks') = Len(tasks)
                  /\ tasks[t].st # "returned"
                  /\ tasks'[t].st = "returned"
       /\ Appended = <<Metric("PlanningLatency")>> <=>
              /\ pc = "planning"
              /\ given = NoState
              /\ ~Threw("plan")'
       /\ Appended = <<Metric("TotalLatency")>> <=>
              (pc # "done" /\ pc' = "done")]_vars

\* ---------------------------------------------------------------- C39
\* C39: the result of a paused run has the execution mode PAUSED, the agent of
\* the paused step as its only active agent, a PausedState, and neither an
\* evaluation nor metrics. The result of a completed run, fresh or resumed, has
\* the mode of the plan, which is neither PAUSED nor PLANNING when the plan has
\* one of the four modes, the agents of all steps of the plan in plan order, an
\* evaluation, the last metrics recorded and at most 5 of them, and no
\* PausedState.
C39_ResultShape ==
    /\ pc = "paused" =>
           /\ result.executionMode = PAUSED
           /\ result.activeAgents = <<plan.steps[i + 1].agent>>
           /\ result.pausedState # NoState
           /\ result.evaluation = NoEvaluation
           /\ result.metrics = <<>>
    /\ pc = "done" =>
           /\ result.executionMode = plan.mode
           /\ plan.mode \in PlannerModes => result.executionMode \notin {PAUSED, PLANNING}
           /\ Len(result.activeAgents) = Len(plan.steps)
           /\ \A k \in 1..Len(plan.steps) : result.activeAgents[k] = plan.steps[k].agent
           /\ result.evaluation # NoEvaluation
           /\ Len(result.metrics) <= 5
           /\ EndsWith(metrics, result.metrics)
           /\ Len(metrics) >= 5 => Len(result.metrics) = 5
           /\ result.pausedState = NoState

\* a run resumed at the second of two steps has returned its result, with
\* both agents of the plan, in a process that has recorded more than 5 metrics
C39_Witness ==
    /\ pc = "done"
    /\ given # NoState
    /\ given.stepIndex = 1
    /\ Len(plan.steps) = 2
    /\ plan.steps[1].agent # plan.steps[2].agent
    /\ Len(tasks) = 1
    /\ Len(metrics) > 5
    /\ Len(result.metrics) = 5

===============================================================================
